---- MODULE Spec2Model ----
(***************************************************************************)
(* Minesweeper: the Board grid engine (src/unnamed/part_002), the PowerUps *)
(* module (src/js/powerups.js), the Game controller (src/unnamed/part_000) *)
(* and the mouse handlers of Input (src/js/input.js).                      *)
(*                                                                         *)
(* The specifications share the variables:                                 *)
(*   BoardSpec  the Board API called directly, with any coordinates;       *)
(*   PlaceSpec  create and placeMines alone, on more boards;               *)
(*   LoopSpec   revealCell's while loop, one iteration a step;             *)
(*   FlagSpec   the Board API on boards with more flags, for chords;       *)
(*   TimerSpec  the Game session with its timer ticking and time passing;  *)
(*   PickupSpec the Game session on boards with several power-up cells;    *)
(*   PowerSpec  the PowerUps API called directly, with time passing;       *)
(*   ShieldSpec the Game session on a board with two mines and two flags;  *)
(*   InputSpec  the mouse handlers of Input and the callbacks they make;   *)
(*   Spec       the Game session driving Board and PowerUps through its    *)
(*              handlers (handleReveal, handleFlag, handleChord, ...).     *)
(* A cell object is identified by its position in board.cells.             *)
(* freezeTimers holds the times at which the callbacks that activateFreeze  *)
(* handed to setTimeout are due; now is Date.now().                        *)
(***************************************************************************)
EXTENDS Integers, Sequences, FiniteSets, TLC

VARIABLES board, result, gameState, timer, timerInterval, timerFrozenUntil,
          powerupsEnabled, inventory, shieldActive, freezeActive,
          freezeEndTime, freezeTimers, now, input

boardVars == <<board, result>>
gameVars == <<gameState, timer, timerInterval, timerFrozenUntil, powerupsEnabled>>
powerVars == <<inventory, shieldActive, freezeActive, freezeEndTime, freezeTimers>>
vars == <<board, result, gameState, timer, timerInterval, timerFrozenUntil,
          powerupsEnabled, inventory, shieldActive, freezeActive,
          freezeEndTime, freezeTimers, now, input>>

----------------------------------------------------------------------------
(* Bounds of the model *)

\* most cells that carry a flag or a question mark at the same time
MaxMarks == 1

\* most power-up cells one placePowerups pass spawns
MaxPowerups == 1

\* most cells that carry a flag or a question mark at the same time, on the
\* boards chords are tried on
MaxFlagMarks == 2

\* most power-up cells one placePowerups pass spawns in the games of PickupSpec
MaxPickups == 3

\* config.timing.maxTimer of the games of TimerSpec, in seconds
ConfigMaxTimer == 2

\* most inventory entries the direct calls of PowerUps.collect build up
MaxInventory == 2

\* most mouse events of one gesture (from no button held to no button held)
MaxEvents == 6

\* the latest time the clock is followed to, in milliseconds
MaxNow == 22500

----------------------------------------------------------------------------
(* Values *)

\* JavaScript null / undefined
Null == "null"

\* getCell's null, as a cell reference
NoCell == -1

Min(a, b) == IF a < b THEN a ELSE b

Max(a, b) == IF a > b THEN a ELSE b

\* Object.keys(config.powerups.types) of getDefaultConfig, in insertion order
PowerupTypes == <<"shield", "detector", "freeze", "safeReveal">>

\* config.powerups.spawnChance of getDefaultConfig, in percent
DefaultSpawnChance == 5

\* powerupConfig null: newGame passes null when power-ups are switched off
\* (cap is not a field of the program's config: it is the number of power-up
\* cells of one placePowerups pass the model follows)
NoConfig ==
  [ present |-> FALSE, enabled |-> FALSE, spawnChance |-> 0, types |-> <<>>,
    cap |-> MaxPowerups ]

\* config.powerups of getDefaultConfig
DefaultPowerups ==
  [ present |-> TRUE, enabled |-> TRUE, spawnChance |-> DefaultSpawnChance,
    types |-> PowerupTypes, cap |-> MaxPowerups ]

\* config.difficulties: the grid sizes and mine counts games are played with
Difficulties ==
  { [rows |-> 3, cols |-> 3, mines |-> 1],
    [rows |-> 2, cols |-> 4, mines |-> 2] }

\* the first click of a game: a corner, an edge and an inner cell
FirstClicks == { <<0, 0>>, <<0, 1>>, <<1, 1>> }

\* the boards the Board API is exercised on
BoardSettings ==
  { [rows |-> 2, cols |-> 3, mines |-> 1],
    [rows |-> 2, cols |-> 3, mines |-> 2] }

\* the boards placeMines alone is exercised on, with power-ups
PlaceSettings ==
  { [rows |-> 1, cols |-> 1, mines |-> 1],
    [rows |-> 2, cols |-> 3, mines |-> 2],
    [rows |-> 3, cols |-> 3, mines |-> 2],
    [rows |-> 3, cols |-> 3, mines |-> 9] }

\* the larger boards placeMines alone is exercised on, without power-ups
LargePlaceSettings ==
  { [rows |-> 1, cols |-> 5, mines |-> 2],
    [rows |-> 3, cols |-> 4, mines |-> 0],
    [rows |-> 3, cols |-> 4, mines |-> 3],
    [rows |-> 4, cols |-> 4, mines |-> 3],
    [rows |-> 5, cols |-> 3, mines |-> 4] }

\* sizes with a non-positive dimension
DegenerateSettings ==
  { [rows |-> 0, cols |-> 3, mines |-> 1],
    [rows |-> 2, cols |-> 0, mines |-> 0],
    [rows |-> -1, cols |-> -1, mines |-> 1] }

\* config.powerups of the games played
GamePowerups == [ DefaultPowerups EXCEPT !.types = <<"shield", "safeReveal">> ]

\* the power-up configurations placeMines alone is exercised with
PlaceConfigs ==
  { NoConfig,
    DefaultPowerups,
    [ DefaultPowerups EXCEPT !.enabled = FALSE ],
    [ DefaultPowerups EXCEPT !.spawnChance = 0 ] }

\* the power-up configurations the Board API is exercised with
BoardConfigs ==
  { NoConfig,
    [ DefaultPowerups EXCEPT !.types = <<"shield", "detector">> ] }

\* coordinates a caller passes: every cell of the board and one position
\* beyond each of its four sides
CallCoords(b) ==
  ((0 .. (b.rows - 1)) \X (0 .. (b.cols - 1)))
    \cup { <<-1, 0>>, <<b.rows, 0>>, <<0, -1>>, <<0, b.cols>> }

----------------------------------------------------------------------------
(* Board: src/unnamed/part_002 *)

\* number of iterations of create's nested loops
NumCells(rows, cols) == IF rows > 0 /\ cols > 0 THEN rows * cols ELSE 0

NewCell(row, col, cols) ==
  [ row |-> row, col |-> col, index |-> row * cols + col,
    isMine |-> FALSE, isRevealed |-> FALSE, isFlagged |-> FALSE,
    isQuestion |-> FALSE, adjacentMines |-> 0, powerup |-> Null,
    wrongFlag |-> FALSE, exploded |-> FALSE ]

create(rows, cols, mineCount, powerupConfig) ==
  [ rows |-> rows, cols |-> cols, mineCount |-> mineCount,
    cells |-> [ i \in 0 .. (NumCells(rows, cols) - 1) |->
                  NewCell(i \div cols, i % cols, cols) ],
    minesPlaced |-> FALSE,
    powerupConfig |-> powerupConfig ]

\* what create throws: its body (lines 13-40) has no throw and no check of
\* rows or cols, so it never fails
createError(rows, cols, mineCount, powerupConfig) == Null

getCell(b, row, col) ==
  IF row < 0 \/ row >= b.rows \/ col < 0 \/ col >= b.cols
    THEN NoCell
    ELSE row * b.cols + col

directions ==
  << <<-1, -1>>, <<-1, 0>>, <<-1, 1>>,
     <<0, -1>>,             <<0, 1>>,
     <<1, -1>>,  <<1, 0>>,  <<1, 1>> >>

NotNull(c) == c # NoCell

getAdjacentCells(b, row, col) ==
  SelectSeq([ k \in 1 .. 8 |->
                getCell(b, row + directions[k][1], col + directions[k][2]) ],
            NotNull)

\* the elements of a sequence, as a set
Range(s) == { s[k] : k \in 1 .. Len(s) }

\* safeZone keeping only the clicked cell safe
safeZoneClickOnly(b, safeRow, safeCol) == {safeRow * b.cols + safeCol}

\* safeZone keeping only the neighbours safe
safeZoneNeighboursOnly(b, safeRow, safeCol) ==
  Range(getAdjacentCells(b, safeRow, safeCol))

\* placeMines, lines 90-97
safeZone(b, safeRow, safeCol) ==
  {safeRow * b.cols + safeCol} \cup Range(getAdjacentCells(b, safeRow, safeCol))

\* validPositions without the safe-zone test
validPositionsAll(b, safeRow, safeCol) == DOMAIN b.cells

\* placeMines, lines 99-105
validPositions(b, safeRow, safeCol) ==
  { i \in DOMAIN b.cells : i \notin safeZone(b, safeRow, safeCol) }

\* Array.prototype.slice(0, end) length: a negative end counts from the back
sliceLen(len, end) == IF end < 0 THEN Max(len + end, 0) ELSE Min(end, len)

\* mineTake one short
mineTakeShort(mineCount, len) == sliceLen(len, Max(Min(mineCount, len) - 1, 0))

\* placeMines, line 109: how many shuffled positions become mines
mineTake(mineCount, len) == sliceLen(len, Min(mineCount, len))

\* shuffleArray then slice(0, k): Fisher-Yates reaches every permutation, so
\* the first k entries can be any k positions
shuffledPrefixes(positions, k) ==
  { S \in SUBSET positions : Cardinality(S) = k }

\* placeMines, lines 112-114
setMines(b, minePositions) ==
  [ b EXCEPT !.cells =
      [ i \in DOMAIN @ |->
          IF i \in minePositions THEN [ @[i] EXCEPT !.isMine = TRUE ] ELSE @[i] ] ]

\* countAdjacentMines with row and column exchanged
countAdjacentMinesSwapped(b, i) ==
  Len(SelectSeq(getAdjacentCells(b, b.cells[i].col, b.cells[i].row),
                LAMBDA c : b.cells[c].isMine))

\* placeMines, line 120
countAdjacentMines(b, i) ==
  Len(SelectSeq(getAdjacentCells(b, b.cells[i].row, b.cells[i].col),
                LAMBDA c : b.cells[c].isMine))

\* placeMines, lines 117-122
setAdjacentMines(b) ==
  [ b EXCEPT !.cells =
      [ i \in DOMAIN @ |->
          IF ~ @[i].isMine
            THEN [ @[i] EXCEPT !.adjacentMines = countAdjacentMines(b, i) ]
            ELSE @[i] ] ]

\* placePowerups, line 139: spawnChance || 0.05, in percent
effectiveSpawnChance(cfg) ==
  IF cfg.spawnChance = 0 THEN DefaultSpawnChance ELSE cfg.spawnChance

\* the draws of Math.random(), in percent
RandomDraws == 0 .. 99

\* placePowerups that takes every cell without a mine as a safe cell
placePowerupsAnySafe(b) ==
  LET safeCells == { i \in DOMAIN b.cells : ~ b.cells[i].isMine }
      chance == effectiveSpawnChance(b.powerupConfig)
      canSpawn == \E r \in RandomDraws : r < chance
      canSkip == \E r \in RandomDraws : ~ (r < chance)
      spawnSets == { S \in SUBSET safeCells :
                       /\ Cardinality(S) <= b.powerupConfig.cap
                       /\ (S # {} => canSpawn)
                       /\ (S # safeCells => canSkip) }
  IN UNION { { [ b EXCEPT !.cells =
                   [ i \in DOMAIN @ |->
                       IF i \in S THEN [ @[i] EXCEPT !.powerup = type[i] ]
                                  ELSE @[i] ] ]
                 : type \in [S -> Range(b.powerupConfig.types)] }
             : S \in spawnSets }

\* placePowerups: every outcome of the per-cell draws, as the boards it can leave
placePowerups(b) ==
  LET safeCells == { i \in DOMAIN b.cells :
                       ~ b.cells[i].isMine /\ b.cells[i].adjacentMines > 0 }
      chance == effectiveSpawnChance(b.powerupConfig)
      canSpawn == \E r \in RandomDraws : r < chance
      canSkip == \E r \in RandomDraws : ~ (r < chance)
      spawnSets == { S \in SUBSET safeCells :
                       /\ Cardinality(S) <= b.powerupConfig.cap
                       /\ (S # {} => canSpawn)
                       /\ (S # safeCells => canSkip) }
  IN UNION { { [ b EXCEPT !.cells =
                   [ i \in DOMAIN @ |->
                       IF i \in S THEN [ @[i] EXCEPT !.powerup = type[i] ]
                                  ELSE @[i] ] ]
                 : type \in [S -> Range(b.powerupConfig.types)] }
             : S \in spawnSets }

\* placeMines: every board the random choices can leave
placeMines(b, safeRow, safeCol) ==
  IF b.minesPlaced THEN {b}
  ELSE
    LET valid == validPositions(b, safeRow, safeCol)
        counted == { setAdjacentMines(setMines(b, minePositions)) :
                       minePositions \in
                         shuffledPrefixes(valid, mineTake(b.mineCount, Cardinality(valid))) }
        placed == IF b.powerupConfig.present /\ b.powerupConfig.enabled
                    THEN UNION { placePowerups(c) : c \in counted }
                    ELSE counted
    IN { [ p EXCEPT !.minesPlaced = TRUE ] : p \in placed }

\* what revealCell and chordReveal return, with the board they leave
RevealResult(b, revealed, hitMine, explodedCell, powerup) ==
  [ board |-> b, revealed |-> revealed, hitMine |-> hitMine,
    explodedCell |-> explodedCell, powerup |-> powerup ]

\* cascadePush following empty neighbours only
cascadePushEmptyOnly(b, current) ==
  SelectSeq(getAdjacentCells(b, b.cells[current].row, b.cells[current].col),
            LAMBDA adj : /\ ~ b.cells[adj].isRevealed
                         /\ ~ b.cells[adj].isFlagged
                         /\ ~ b.cells[adj].isMine
                         /\ b.cells[adj].adjacentMines = 0)

\* revealCell, lines 186-191: the neighbours the cascade pushes
cascadePush(b, current) ==
  SelectSeq(getAdjacentCells(b, b.cells[current].row, b.cells[current].col),
            LAMBDA adj : /\ ~ b.cells[adj].isRevealed
                         /\ ~ b.cells[adj].isFlagged
                         /\ ~ b.cells[adj].isMine)

RECURSIVE revealLoopNoMineStop(_, _, _)
\* revealLoop without the return on a mine
revealLoopNoMineStop(b, toReveal, revealed) ==
  IF Len(toReveal) = 0
    THEN RevealResult(b, revealed, FALSE, NoCell, Null)
    ELSE
      LET current == toReveal[Len(toReveal)]
          rest == SubSeq(toReveal, 1, Len(toReveal) - 1)
      IN IF b.cells[current].isRevealed \/ b.cells[current].isFlagged
           THEN revealLoopNoMineStop(b, rest, revealed)
           ELSE
             LET b2 == [ b EXCEPT !.cells[current].isRevealed = TRUE ]
                 revealed2 == Append(revealed, current)
             IN IF b2.cells[current].powerup # Null
                  THEN RevealResult(b2, revealed2, FALSE, NoCell, b2.cells[current].powerup)
                ELSE IF b2.cells[current].adjacentMines = 0
                  THEN revealLoopNoMineStop(b2, rest \o cascadePush(b2, current), revealed2)
                ELSE revealLoopNoMineStop(b2, rest, revealed2)

RECURSIVE revealLoopNoSkip(_, _, _)
\* revealLoop without the skip of cells revealed since they were pushed
revealLoopNoSkip(b, toReveal, revealed) ==
  IF Len(toReveal) = 0
    THEN RevealResult(b, revealed, FALSE, NoCell, Null)
    ELSE
      LET current == toReveal[Len(toReveal)]
          rest == SubSeq(toReveal, 1, Len(toReveal) - 1)
          b2 == [ b EXCEPT !.cells[current].isRevealed = TRUE ]
          revealed2 == Append(revealed, current)
      IN IF b2.cells[current].isMine
           THEN RevealResult(b2, revealed2, TRUE, current, Null)
         ELSE IF b2.cells[current].powerup # Null
           THEN RevealResult(b2, revealed2, FALSE, NoCell, b2.cells[current].powerup)
         ELSE IF b2.cells[current].adjacentMines = 0
           THEN revealLoopNoSkip(b2, rest \o cascadePush(b2, current), revealed2)
         ELSE revealLoopNoSkip(b2, rest, revealed2)

RECURSIVE revealLoop(_, _, _)
\* revealCell, lines 166-195: the while loop over the work list toReveal
revealLoop(b, toReveal, revealed) ==
  IF Len(toReveal) = 0
    THEN RevealResult(b, revealed, FALSE, NoCell, Null)
    ELSE
      LET current == toReveal[Len(toReveal)]
          rest == SubSeq(toReveal, 1, Len(toReveal) - 1)
      IN IF b.cells[current].isRevealed \/ b.cells[current].isFlagged
           THEN revealLoop(b, rest, revealed)
           ELSE
             LET b2 == [ b EXCEPT !.cells[current].isRevealed = TRUE ]
                 revealed2 == Append(revealed, current)
             IN IF b2.cells[current].isMine
                  THEN RevealResult(b2, revealed2, TRUE, current, Null)
                ELSE IF b2.cells[current].powerup # Null
                  THEN RevealResult(b2, revealed2, FALSE, NoCell, b2.cells[current].powerup)
                ELSE IF b2.cells[current].adjacentMines = 0
                  THEN revealLoop(b2, rest \o cascadePush(b2, current), revealed2)
                ELSE revealLoop(b2, rest, revealed2)

\* revealStep that forgets to mark the popped cell revealed
revealStepNoMark(b, toReveal, revealed) ==
  LET current == toReveal[Len(toReveal)]
      rest == SubSeq(toReveal, 1, Len(toReveal) - 1)
      step == [ board |-> b, toReveal |-> rest, revealed |-> revealed,
                returned |-> FALSE, hitMine |-> FALSE, explodedCell |-> NoCell,
                powerup |-> Null ]
  IN IF b.cells[current].isRevealed \/ b.cells[current].isFlagged
       THEN step
     ELSE IF b.cells[current].isMine
       THEN [ step EXCEPT !.revealed = Append(revealed, current), !.returned = TRUE,
                          !.hitMine = TRUE, !.explodedCell = current ]
     ELSE IF b.cells[current].powerup # Null
       THEN [ step EXCEPT !.revealed = Append(revealed, current), !.returned = TRUE,
                          !.powerup = b.cells[current].powerup ]
     ELSE IF b.cells[current].adjacentMines = 0
       THEN [ step EXCEPT !.revealed = Append(revealed, current),
                          !.toReveal = rest \o cascadePush(b, current) ]
     ELSE [ step EXCEPT !.revealed = Append(revealed, current) ]

\* revealStep that goes on past a power-up cell
revealStepPastPowerup(b, toReveal, revealed) ==
  LET current == toReveal[Len(toReveal)]
      rest == SubSeq(toReveal, 1, Len(toReveal) - 1)
      b2 == [ b EXCEPT !.cells[current].isRevealed = TRUE ]
      step == [ board |-> b, toReveal |-> rest, revealed |-> revealed,
                returned |-> FALSE, hitMine |-> FALSE, explodedCell |-> NoCell,
                powerup |-> Null ]
      marked == [ step EXCEPT !.board = b2, !.revealed = Append(revealed, current) ]
  IN IF b.cells[current].isRevealed \/ b.cells[current].isFlagged
       THEN step
     ELSE IF b2.cells[current].isMine
       THEN [ marked EXCEPT !.returned = TRUE, !.hitMine = TRUE,
                            !.explodedCell = current ]
     ELSE IF b2.cells[current].adjacentMines = 0
       THEN [ marked EXCEPT !.toReveal = rest \o cascadePush(b2, current) ]
     ELSE [ marked EXCEPT !.powerup = b2.cells[current].powerup ]

\* revealStep cascading from numbered cells too, onto any unrevealed neighbour
revealStepCascadeAll(b, toReveal, revealed) ==
  LET current == toReveal[Len(toReveal)]
      rest == SubSeq(toReveal, 1, Len(toReveal) - 1)
      b2 == [ b EXCEPT !.cells[current].isRevealed = TRUE ]
      step == [ board |-> b, toReveal |-> rest, revealed |-> revealed,
                returned |-> FALSE, hitMine |-> FALSE, explodedCell |-> NoCell,
                powerup |-> Null ]
      marked == [ step EXCEPT !.board = b2, !.revealed = Append(revealed, current) ]
  IN IF b.cells[current].isRevealed \/ b.cells[current].isFlagged
       THEN step
     ELSE IF b2.cells[current].isMine
       THEN [ marked EXCEPT !.returned = TRUE, !.hitMine = TRUE,
                            !.explodedCell = current ]
     ELSE IF b2.cells[current].powerup # Null
       THEN [ marked EXCEPT !.returned = TRUE, !.powerup = b2.cells[current].powerup ]
     ELSE [ marked EXCEPT !.toReveal =
              rest \o SelectSeq(getAdjacentCells(b2, b2.cells[current].row,
                                                 b2.cells[current].col),
                                LAMBDA adj : /\ ~ b2.cells[adj].isRevealed
                                             /\ ~ b2.cells[adj].isFlagged) ]

\* revealCell, lines 167-192: one iteration of the while loop on a work list
\* that is not empty; returned says whether the iteration left by a return
revealStep(b, toReveal, revealed) ==
  LET current == toReveal[Len(toReveal)]
      rest == SubSeq(toReveal, 1, Len(toReveal) - 1)
      b2 == [ b EXCEPT !.cells[current].isRevealed = TRUE ]
      step == [ board |-> b, toReveal |-> rest, revealed |-> revealed,
                returned |-> FALSE, hitMine |-> FALSE, explodedCell |-> NoCell,
                powerup |-> Null ]
      marked == [ step EXCEPT !.board = b2, !.revealed = Append(revealed, current) ]
  IN IF b.cells[current].isRevealed \/ b.cells[current].isFlagged
       THEN step
     ELSE IF b2.cells[current].isMine
       THEN [ marked EXCEPT !.returned = TRUE, !.hitMine = TRUE,
                            !.explodedCell = current ]
     ELSE IF b2.cells[current].powerup # Null
       THEN [ marked EXCEPT !.returned = TRUE, !.powerup = b2.cells[current].powerup ]
     ELSE IF b2.cells[current].adjacentMines = 0
       THEN [ marked EXCEPT !.toReveal = rest \o cascadePush(b2, current) ]
     ELSE marked

\* revealCell taking the flag off a flagged cell and revealing it
revealCellThroughFlag(b, row, col) ==
  LET cell == getCell(b, row, col)
  IN IF cell = NoCell \/ b.cells[cell].isRevealed
       THEN RevealResult(b, <<>>, FALSE, NoCell, Null)
       ELSE revealLoop([ b EXCEPT !.cells[cell].isFlagged = FALSE ], <<cell>>, <<>>)

revealCell(b, row, col) ==
  LET cell == getCell(b, row, col)
  IN IF cell = NoCell \/ b.cells[cell].isRevealed \/ b.cells[cell].isFlagged
       THEN RevealResult(b, <<>>, FALSE, NoCell, Null)
       ELSE revealLoop(b, <<cell>>, <<>>)

RECURSIVE chordLoopStopAtMine(_, _, _, _)
\* chordLoop leaving the loop at the first mine hit
chordLoopStopAtMine(b, adjacent, k, acc) ==
  IF k > Len(adjacent) \/ acc.hitMine
    THEN [ acc EXCEPT !.board = b ]
    ELSE
      LET adj == adjacent[k]
      IN IF ~ b.cells[adj].isRevealed /\ ~ b.cells[adj].isFlagged
           THEN
             LET r == revealCell(b, b.cells[adj].row, b.cells[adj].col)
                 acc2 == [ acc EXCEPT
                             !.revealed = @ \o r.revealed,
                             !.hitMine = IF r.hitMine THEN TRUE ELSE @,
                             !.explodedCell = IF r.hitMine THEN r.explodedCell ELSE @,
                             !.powerup = IF r.powerup # Null THEN r.powerup ELSE @ ]
             IN chordLoopStopAtMine(r.board, adjacent, k + 1, acc2)
           ELSE chordLoopStopAtMine(b, adjacent, k + 1, acc)

RECURSIVE chordLoop(_, _, _, _)
\* chordReveal, lines 221-235: the loop over the neighbours, acc is `result`
chordLoop(b, adjacent, k, acc) ==
  IF k > Len(adjacent)
    THEN [ acc EXCEPT !.board = b ]
    ELSE
      LET adj == adjacent[k]
      IN IF ~ b.cells[adj].isRevealed /\ ~ b.cells[adj].isFlagged
           THEN
             LET r == revealCell(b, b.cells[adj].row, b.cells[adj].col)
                 acc2 == [ acc EXCEPT
                             !.revealed = @ \o r.revealed,
                             !.hitMine = IF r.hitMine THEN TRUE ELSE @,
                             !.explodedCell = IF r.hitMine THEN r.explodedCell ELSE @,
                             !.powerup = IF r.powerup # Null THEN r.powerup ELSE @ ]
             IN chordLoop(r.board, adjacent, k + 1, acc2)
           ELSE chordLoop(b, adjacent, k + 1, acc)

\* chordReveal accepting more flags than the number asks for
chordRevealAtLeast(b, row, col) ==
  LET cell == getCell(b, row, col)
  IN IF cell = NoCell \/ ~ b.cells[cell].isRevealed \/ b.cells[cell].adjacentMines = 0
       THEN RevealResult(b, <<>>, FALSE, NoCell, Null)
       ELSE
         LET adjacent == getAdjacentCells(b, row, col)
             flaggedCount == Len(SelectSeq(adjacent, LAMBDA c : b.cells[c].isFlagged))
         IN IF flaggedCount < b.cells[cell].adjacentMines
              THEN RevealResult(b, <<>>, FALSE, NoCell, Null)
              ELSE chordLoop(b, adjacent, 1, RevealResult(b, <<>>, FALSE, NoCell, Null))

chordReveal(b, row, col) ==
  LET cell == getCell(b, row, col)
  IN IF cell = NoCell \/ ~ b.cells[cell].isRevealed \/ b.cells[cell].adjacentMines = 0
       THEN RevealResult(b, <<>>, FALSE, NoCell, Null)
       ELSE
         LET adjacent == getAdjacentCells(b, row, col)
             flaggedCount == Len(SelectSeq(adjacent, LAMBDA c : b.cells[c].isFlagged))
         IN IF flaggedCount # b.cells[cell].adjacentMines
              THEN RevealResult(b, <<>>, FALSE, NoCell, Null)
              ELSE chordLoop(b, adjacent, 1, RevealResult(b, <<>>, FALSE, NoCell, Null))

\* toggleFlag: the board it leaves, whether it changed, and the cell
toggleFlag(b, row, col) ==
  LET cell == getCell(b, row, col)
  IN IF cell = NoCell \/ b.cells[cell].isRevealed
       THEN [ board |-> b, changed |-> FALSE, cell |-> NoCell ]
     ELSE IF b.cells[cell].isFlagged
       THEN [ board |-> [ b EXCEPT !.cells[cell].isFlagged = FALSE,
                                   !.cells[cell].isQuestion = TRUE ],
              changed |-> TRUE, cell |-> cell ]
     ELSE IF b.cells[cell].isQuestion
       THEN [ board |-> [ b EXCEPT !.cells[cell].isQuestion = FALSE ],
              changed |-> TRUE, cell |-> cell ]
     ELSE [ board |-> [ b EXCEPT !.cells[cell].isFlagged = TRUE ],
            changed |-> TRUE, cell |-> cell ]

\* checkWin counting a flagged cell as cleared
checkWinFlagged(b) ==
  ~ \E i \in DOMAIN b.cells :
      ~ b.cells[i].isMine /\ ~ b.cells[i].isRevealed /\ ~ b.cells[i].isFlagged

checkWin(b) ==
  ~ \E i \in DOMAIN b.cells : ~ b.cells[i].isMine /\ ~ b.cells[i].isRevealed

getFlagCount(b) == Cardinality({ i \in DOMAIN b.cells : b.cells[i].isFlagged })

\* revealAllMines: the board it leaves and the set of cells it returns
revealAllMines(b) ==
  [ board |->
      [ b EXCEPT !.cells =
          [ i \in DOMAIN @ |->
              IF @[i].isMine /\ ~ @[i].isFlagged
                THEN [ @[i] EXCEPT !.isRevealed = TRUE ]
              ELSE IF ~ @[i].isMine /\ @[i].isFlagged
                THEN [ @[i] EXCEPT !.wrongFlag = TRUE ]
              ELSE @[i] ] ],
    mines |-> { i \in DOMAIN b.cells :
                  \/ b.cells[i].isMine /\ ~ b.cells[i].isFlagged
                  \/ ~ b.cells[i].isMine /\ b.cells[i].isFlagged } ]

\* getRandomSafeCell that picks among all covered cells, mines too
getRandomSafeCellAny(b) ==
  { i \in DOMAIN b.cells : ~ b.cells[i].isRevealed /\ ~ b.cells[i].isFlagged }

\* getRandomSafeCell: the cells the random index can pick ({} when it returns null)
getRandomSafeCell(b) ==
  { i \in DOMAIN b.cells :
      ~ b.cells[i].isMine /\ ~ b.cells[i].isRevealed /\ ~ b.cells[i].isFlagged }

\* getRandomUnflaggedMine: the cells the random index can pick
getRandomUnflaggedMine(b) ==
  { i \in DOMAIN b.cells :
      b.cells[i].isMine /\ ~ b.cells[i].isFlagged /\ ~ b.cells[i].isRevealed }

----------------------------------------------------------------------------
(* The record of the last call: its arguments and what it returned *)

NoResult ==
  [ op |-> "none", target |-> NoCell,
    revealed |-> <<>>, hitMine |-> FALSE, explodedCell |-> NoCell,
    powerup |-> Null, changed |-> FALSE, cell |-> NoCell,
    value |-> FALSE, error |-> Null, accepted |-> FALSE, placed |-> FALSE,
    toReveal |-> <<>>, pops |-> 0 ]

\* target is the cell the call looked up with getCell: NoCell when the
\* coordinates are out of bounds or the call returned before the lookup
Called(op, target) == [ NoResult EXCEPT !.op = op, !.target = target ]

\* a revealCell / chordReveal result, recorded
Returned(op, target, r) ==
  [ Called(op, target) EXCEPT !.revealed = r.revealed, !.hitMine = r.hitMine,
                                !.explodedCell = r.explodedCell, !.powerup = r.powerup ]

\* cells that carry a flag or a question mark
Marked(b) == { i \in DOMAIN b.cells : b.cells[i].isFlagged \/ b.cells[i].isQuestion }

\* a toggle that would mark one more cell than the model follows
OverMarks(b, row, col) ==
  /\ getCell(b, row, col) # NoCell
  /\ getCell(b, row, col) \notin Marked(b)
  /\ Cardinality(Marked(b)) >= MaxMarks

----------------------------------------------------------------------------
(* Input: src/js/input.js, the mouse handlers.  input holds the module's     *)
(* leftDown, rightDown and bothButtonsDown; the buttons the user holds (left, *)
(* right) and whether the pointer is inside the board element; and, of the    *)
(* gesture since no button was held: its events, whether each had a cell for  *)
(* its target (onCells), and the callbacks made (calls)                       *)

\* MouseEvent.button of the left and the right button
Buttons == {0, 2}

\* the module state of lines 10-12, no button held, the pointer on the board
InputInit ==
  [ leftDown |-> FALSE, rightDown |-> FALSE, bothButtonsDown |-> FALSE,
    left |-> FALSE, right |-> FALSE, inside |-> TRUE,
    events |-> <<>>, onCells |-> TRUE, calls |-> <<>> ]

\* handleMouseDown; cell says whether the event's target is a cell
handleMouseDown(in, button, cell) ==
  IF ~ cell THEN in
  ELSE
    LET pressed == IF button = 0 THEN [ in EXCEPT !.leftDown = TRUE ]
                   ELSE IF button = 2 THEN [ in EXCEPT !.rightDown = TRUE ]
                   ELSE in
    IN IF pressed.leftDown /\ pressed.rightDown
         THEN [ pressed EXCEPT !.bothButtonsDown = TRUE ]
         ELSE pressed

\* handleMouseUp: the module state it leaves and the callback it makes
handleMouseUp(in, button, cell) ==
  IF in.bothButtonsDown /\ cell
    THEN [ state |-> [ in EXCEPT !.bothButtonsDown = FALSE,
                                 !.leftDown = FALSE, !.rightDown = FALSE ],
           call |-> "chord" ]
  ELSE IF button = 0
    THEN [ state |-> [ in EXCEPT !.leftDown = FALSE, !.bothButtonsDown = FALSE ],
           call |-> IF cell /\ ~ in.rightDown THEN "reveal" ELSE Null ]
  ELSE IF button = 2
    THEN [ state |-> [ in EXCEPT !.rightDown = FALSE, !.bothButtonsDown = FALSE ],
           call |-> IF cell /\ ~ in.leftDown THEN "flag" ELSE Null ]
  ELSE [ state |-> [ in EXCEPT !.bothButtonsDown = FALSE ], call |-> Null ]

\* handleMouseLeave
handleMouseLeave(in) ==
  [ in EXCEPT !.leftDown = FALSE, !.rightDown = FALSE, !.bothButtonsDown = FALSE ]

\* the button is held
ButtonHeld(in, button) == IF button = 0 THEN in.left ELSE in.right

\* the number of buttons held
HeldCount(in) == (IF in.left THEN 1 ELSE 0) + (IF in.right THEN 1 ELSE 0)

\* in with the button held or let go
Hold(in, button, down) ==
  IF button = 0 THEN [ in EXCEPT !.left = down ] ELSE [ in EXCEPT !.right = down ]

\* in at the start of an event: a press with no button held begins a gesture
Gesture(in) ==
  IF HeldCount(in) = 0
    THEN [ in EXCEPT !.events = <<>>, !.onCells = TRUE, !.calls = <<>> ]
    ELSE in

\* in with the event noted in the gesture
Noted(in, name, button, cell) ==
  [ in EXCEPT !.events = Append(@, <<name, button>>),
              !.onCells = @ /\ cell ]

\* the user presses a button: on a cell, on the board between cells, or (no
\* handler runs) outside the board
MouseDown ==
  /\ \E button \in Buttons, cell \in BOOLEAN :
       /\ ~ ButtonHeld(input, button)
       /\ cell => input.inside
       /\ Len(Gesture(input).events) + 2 + HeldCount(input) <= MaxEvents
       /\ input' = Noted(Hold(IF input.inside
                                THEN handleMouseDown(Gesture(input), button, cell)
                                ELSE Gesture(input),
                              button, TRUE),
                         "down", button, cell)
  /\ UNCHANGED <<board, result, gameVars, powerVars, now>>

\* the user lets a button go
MouseUp ==
  /\ \E button \in Buttons, cell \in BOOLEAN :
       /\ ButtonHeld(input, button)
       /\ cell => input.inside
       /\ LET up == handleMouseUp(input, button, cell)
              after == IF input.inside THEN up.state ELSE input
              called == IF input.inside /\ up.call # Null
                          THEN [ after EXCEPT !.calls = Append(@, up.call) ]
                          ELSE after
          IN input' = Noted(Hold(called, button, FALSE), "up", button, cell)
  /\ UNCHANGED <<board, result, gameVars, powerVars, now>>

\* the pointer leaves the board element
MouseLeave ==
  /\ input.inside
  /\ input' = [ handleMouseLeave(input) EXCEPT
                  !.inside = FALSE,
                  !.onCells = @ /\ HeldCount(input) = 0 ]
  /\ UNCHANGED <<board, result, gameVars, powerVars, now>>

\* the pointer comes back onto the board element
MouseEnter ==
  /\ ~ input.inside
  /\ input' = [ input EXCEPT !.inside = TRUE ]
  /\ UNCHANGED <<board, result, gameVars, powerVars, now>>

InputStart ==
  /\ board = create(2, 3, 1, DefaultPowerups)
  /\ result = NoResult
  /\ gameState = "idle"
  /\ timer = 0
  /\ timerInterval = FALSE
  /\ timerFrozenUntil = 0
  /\ powerupsEnabled = TRUE
  /\ inventory = <<>>
  /\ shieldActive = FALSE
  /\ freezeActive = FALSE
  /\ freezeEndTime = 0
  /\ freezeTimers = {}
  /\ now = 0
  /\ input = InputInit

InputNext ==
  \/ MouseDown
  \/ MouseUp
  \/ MouseLeave
  \/ MouseEnter

InputSpec == InputStart /\ [][InputNext]_vars

----------------------------------------------------------------------------
(* Module state of Game (part_000, lines 5-15) and PowerUps (powerups.js, 5-8) *)

GameInit ==
  /\ gameState = "idle"
  /\ timer = 0
  /\ timerInterval = FALSE
  /\ timerFrozenUntil = 0
  /\ powerupsEnabled = TRUE

PowerUpsInit ==
  /\ inventory = <<>>
  /\ shieldActive = FALSE
  /\ freezeActive = FALSE
  /\ freezeEndTime = 0
  /\ freezeTimers = {}

----------------------------------------------------------------------------
(* BoardSpec: the Board API called directly *)

\* the arguments create is called with, as <<setting, powerupConfig>>
BoardInputs == (BoardSettings \cup DegenerateSettings) \X BoardConfigs

PlaceInputs ==
  ((PlaceSettings \cup DegenerateSettings) \X PlaceConfigs)
    \cup (LargePlaceSettings \X {NoConfig})

\* b and r are the board and the call record a create call leaves
CreateFrom(inputs, b, r) ==
  \E in \in inputs :
    /\ b = create(in[1].rows, in[1].cols, in[1].mines, in[2])
    /\ r = [ Called("create", NoCell) EXCEPT
                    !.error = createError(in[1].rows, in[1].cols, in[1].mines, in[2]) ]

BoardInit ==
  /\ CreateFrom(BoardInputs, board, result)
  /\ GameInit
  /\ PowerUpsInit
  /\ now = 0
  /\ input = InputInit

\* the caller is done with the returned record
Return ==
  /\ result.op # "none"
  /\ result.op # "revealLoop"
  /\ result' = NoResult
  /\ UNCHANGED <<board, gameVars, powerVars, now, input>>

CallCreate ==
  /\ result.op = "none"
  /\ CreateFrom(BoardInputs, board', result')
  /\ UNCHANGED <<gameVars, powerVars, now, input>>

\* placeMines with an in-bounds first click, as handleReveal calls it
CallPlaceMines ==
  /\ result.op = "none"
  /\ \E row \in 0 .. (board.rows - 1), col \in 0 .. (board.cols - 1) :
       /\ board' \in placeMines(board, row, col)
       /\ result' = [ Called("placeMines", getCell(board, row, col)) EXCEPT !.placed = ~ board.minesPlaced ]
  /\ UNCHANGED <<gameVars, powerVars, now, input>>

\* the callers reveal, chord and flag only once the mines are placed
CallRevealCell ==
  /\ result.op = "none"
  /\ board.minesPlaced
  /\ \E <<row, col>> \in CallCoords(board) :
       LET r == revealCell(board, row, col)
       IN /\ board' = r.board
          /\ result' = Returned("revealCell", getCell(board, row, col), r)
  /\ UNCHANGED <<gameVars, powerVars, now, input>>

CallChordReveal ==
  /\ result.op = "none"
  /\ board.minesPlaced
  /\ \E <<row, col>> \in CallCoords(board) :
       LET r == chordReveal(board, row, col)
       IN /\ board' = r.board
          /\ result' = Returned("chordReveal", getCell(board, row, col), r)
  /\ UNCHANGED <<gameVars, powerVars, now, input>>

CallToggleFlag ==
  /\ result.op = "none"
  /\ board.minesPlaced
  /\ \E <<row, col>> \in CallCoords(board) :
       /\ ~ OverMarks(board, row, col)
       /\ LET r == toggleFlag(board, row, col)
          IN /\ board' = r.board
             /\ result' = [ Called("toggleFlag", getCell(board, row, col)) EXCEPT
                              !.changed = r.changed, !.cell = r.cell ]
  /\ UNCHANGED <<gameVars, powerVars, now, input>>

BoardNext ==
  \/ Return
  \/ CallCreate
  \/ CallPlaceMines
  \/ CallRevealCell
  \/ CallChordReveal
  \/ CallToggleFlag

BoardSpec == BoardInit /\ [][BoardNext]_vars

----------------------------------------------------------------------------
(* PlaceSpec: create and placeMines alone, on more boards *)

PlaceInit ==
  /\ CreateFrom(PlaceInputs, board, result)
  /\ GameInit
  /\ PowerUpsInit
  /\ now = 0
  /\ input = InputInit

PlaceCreate ==
  /\ result.op = "none"
  /\ CreateFrom(PlaceInputs, board', result')
  /\ UNCHANGED <<gameVars, powerVars, now, input>>

PlaceNext ==
  \/ Return
  \/ PlaceCreate
  \/ CallPlaceMines

PlaceSpec == PlaceInit /\ [][PlaceNext]_vars

----------------------------------------------------------------------------
(* LoopSpec: revealCell run one iteration of its while loop at a time.     *)
(* While the loop runs, result.op is "revealLoop" and result carries the   *)
(* locals toReveal and revealed and the number of pops made so far.        *)

\* the boards the loop is run on
LoopSettings == { [rows |-> 3, cols |-> 3, mines |-> 1] }

\* the power-up configuration the loop is run with
LoopConfigs == { [ DefaultPowerups EXCEPT !.types = <<"freeze">> ] }

LoopInputs == LoopSettings \X LoopConfigs

LoopInit ==
  /\ CreateFrom(LoopInputs, board, result)
  /\ GameInit
  /\ PowerUpsInit
  /\ now = 0
  /\ input = InputInit

LoopCreate ==
  /\ result.op = "none"
  /\ CreateFrom(LoopInputs, board', result')
  /\ UNCHANGED <<gameVars, powerVars, now, input>>

\* revealCell, lines 157-164: the lookup, the guard and the first work list
RevealStart ==
  /\ result.op = "none"
  /\ board.minesPlaced
  /\ \E <<row, col>> \in CallCoords(board) :
       LET cell == getCell(board, row, col)
       IN IF cell = NoCell \/ board.cells[cell].isRevealed \/ board.cells[cell].isFlagged
            THEN result' = Returned("revealCell", cell,
                                    RevealResult(board, <<>>, FALSE, NoCell, Null))
            ELSE result' = [ Called("revealLoop", cell) EXCEPT !.toReveal = <<cell>> ]
  /\ UNCHANGED <<board, gameVars, powerVars, now, input>>

\* one iteration; the call returns when the iteration returns or leaves the
\* work list empty (line 166, then line 195)
RevealPop ==
  /\ result.op = "revealLoop"
  /\ LET s == revealStep(board, result.toReveal, result.revealed)
     IN /\ board' = s.board
        /\ result' = [ result EXCEPT
                         !.op = IF s.returned \/ Len(s.toReveal) = 0
                                  THEN "revealCell" ELSE "revealLoop",
                         !.toReveal = s.toReveal,
                         !.revealed = s.revealed,
                         !.hitMine = s.hitMine,
                         !.explodedCell = s.explodedCell,
                         !.powerup = s.powerup,
                         !.pops = @ + 1 ]
  /\ UNCHANGED <<gameVars, powerVars, now, input>>

LoopNext ==
  \/ Return
  \/ LoopCreate
  \/ CallPlaceMines
  \/ RevealStart
  \/ RevealPop

\* the loop is synchronous code: once entered it runs on to its return
LoopSpec == LoopInit /\ [][LoopNext]_vars /\ WF_vars(RevealPop)

----------------------------------------------------------------------------
(* FlagSpec: the Board API on boards that carry up to MaxFlagMarks marks,  *)
(* enough to flag too many cells around a number or to flag the wrong ones *)

\* the boards chords are tried on
FlagSettings ==
  { [rows |-> 2, cols |-> 3, mines |-> 1],
    [rows |-> 2, cols |-> 3, mines |-> 2] }

\* the power-up configuration chords are tried with
FlagConfigs == { [ DefaultPowerups EXCEPT !.types = <<"detector">> ] }

FlagInputs == FlagSettings \X FlagConfigs

FlagInit ==
  /\ CreateFrom(FlagInputs, board, result)
  /\ GameInit
  /\ PowerUpsInit
  /\ now = 0
  /\ input = InputInit

FlagCreate ==
  /\ result.op = "none"
  /\ CreateFrom(FlagInputs, board', result')
  /\ UNCHANGED <<gameVars, powerVars, now, input>>

\* a toggle that would mark one more cell than FlagSpec follows
OverFlagMarks(b, row, col) ==
  /\ getCell(b, row, col) # NoCell
  /\ getCell(b, row, col) \notin Marked(b)
  /\ Cardinality(Marked(b)) >= MaxFlagMarks

FlagToggleFlag ==
  /\ result.op = "none"
  /\ board.minesPlaced
  /\ \E <<row, col>> \in CallCoords(board) :
       /\ ~ OverFlagMarks(board, row, col)
       /\ LET r == toggleFlag(board, row, col)
          IN /\ board' = r.board
             /\ result' = [ Called("toggleFlag", getCell(board, row, col)) EXCEPT
                              !.changed = r.changed, !.cell = r.cell ]
  /\ UNCHANGED <<gameVars, powerVars, now, input>>

CallCheckWin ==
  /\ result.op = "none"
  /\ board.minesPlaced
  /\ result' = [ Called("checkWin", NoCell) EXCEPT !.value = checkWin(board) ]
  /\ UNCHANGED <<board, gameVars, powerVars, now, input>>

FlagNext ==
  \/ Return
  \/ FlagCreate
  \/ CallPlaceMines
  \/ CallRevealCell
  \/ CallChordReveal
  \/ FlagToggleFlag
  \/ CallCheckWin

FlagSpec == FlagInit /\ [][FlagNext]_vars

----------------------------------------------------------------------------
(* PowerUps: src/js/powerups.js.  The state is the record                  *)
(* [inventory, shieldActive, freezeActive, freezeEndTime]; an inventory    *)
(* entry is kept by its type (its id is a timestamp no code reads back).   *)

PowerState ==
  [ inventory |-> inventory, shieldActive |-> shieldActive,
    freezeActive |-> freezeActive, freezeEndTime |-> freezeEndTime ]

\* reset that leaves a running freeze on
resetKeepFreeze(p) ==
  [ inventory |-> <<>>, shieldActive |-> FALSE,
    freezeActive |-> p.freezeActive, freezeEndTime |-> p.freezeEndTime ]

\* PowerUps.reset
reset(p) ==
  [ inventory |-> <<>>, shieldActive |-> FALSE,
    freezeActive |-> FALSE, freezeEndTime |-> 0 ]

\* activateShield that switches the shield over
activateShieldToggle(p) == [ p EXCEPT !.shieldActive = ~ @ ]

activateShield(p) == [ p EXCEPT !.shieldActive = TRUE ]

\* collect that also puts the shield into the inventory
collectStoresShield(p, type) ==
  IF type = "shield"
    THEN [ activateShield(p) EXCEPT !.inventory = Append(@, [ type |-> type ]) ]
    ELSE [ p EXCEPT !.inventory = Append(@, [ type |-> type ]) ]

\* PowerUps.collect (an inventory entry is kept by its type; its id is read
\* by no code)
collect(p, type) ==
  IF type = "shield"
    THEN activateShield(p)
    ELSE [ p EXCEPT !.inventory = Append(@, [ type |-> type ]) ]

\* consumeShield that always reports a shield
consumeShieldAlways(p) ==
  [ power |-> [ p EXCEPT !.shieldActive = FALSE ], value |-> TRUE ]

\* consumeShield that reports the shield and leaves it on
consumeShieldKeep(p) ==
  IF ~ p.shieldActive
    THEN [ power |-> p, value |-> FALSE ]
    ELSE [ power |-> p, value |-> TRUE ]

\* consumeShield: the state it leaves and the value it returns
consumeShield(p) ==
  IF ~ p.shieldActive
    THEN [ power |-> p, value |-> FALSE ]
    ELSE [ power |-> [ p EXCEPT !.shieldActive = FALSE ], value |-> TRUE ]

\* config.powerups.types.freeze.duration of getDefaultConfig, in milliseconds
FreezeDuration == 15000

\* config.powerups.types.safeReveal.cellCount of getDefaultConfig
SafeRevealCellCount == 3

\* the index of the last entry of the type, as findLastIndex would give it
findIndexLast(inv, type) ==
  IF \E k \in 1 .. Len(inv) : inv[k].type = type
    THEN CHOOSE k \in 1 .. Len(inv) :
           /\ inv[k].type = type
           /\ \A j \in (k + 1) .. Len(inv) : inv[j].type # type
    ELSE 0

\* inventory.findIndex(p => p.type === type), 1-based; 0 when there is none
findIndex(inv, type) ==
  IF \E k \in 1 .. Len(inv) : inv[k].type = type
    THEN CHOOSE k \in 1 .. Len(inv) :
           /\ inv[k].type = type
           /\ \A j \in 1 .. (k - 1) : inv[j].type # type
    ELSE 0

\* inventory.splice(index, 1)
splice(inv, index) ==
  SubSeq(inv, 1, index - 1) \o SubSeq(inv, index + 1, Len(inv))

\* activateFreeze: the PowerUps state it leaves at time t
activateFreeze(p, t) ==
  [ p EXCEPT !.freezeActive = TRUE, !.freezeEndTime = t + FreezeDuration ]

RECURSIVE safeRevealLoop(_, _, _)
\* activateSafeReveal, lines 222-228: every outcome of the random picks from
\* iteration i on, as [board, revealed]
safeRevealLoop(b, i, revealed) ==
  IF i >= SafeRevealCellCount
    THEN { [ board |-> b, revealed |-> revealed ] }
    ELSE
      LET safeCells == getRandomSafeCell(b)
      IN IF safeCells = {}
           THEN safeRevealLoop(b, i + 1, revealed)
           ELSE UNION { safeRevealLoop(revealCell(b, b.cells[c].row, b.cells[c].col).board,
                                       i + 1,
                                       revealed \o revealCell(b, b.cells[c].row,
                                                              b.cells[c].col).revealed)
                        : c \in safeCells }

activateSafeReveal(b) == safeRevealLoop(b, 0, <<>>)

----------------------------------------------------------------------------
(* Game: src/unnamed/part_000 *)

\* gameOver: the board it leaves (gameState and the timer are set by the caller's action)
gameOver(b, won, explodedCell) ==
  IF won
    THEN [ b EXCEPT !.cells =
             [ i \in DOMAIN @ |->
                 IF @[i].isMine /\ ~ @[i].isFlagged
                   THEN [ @[i] EXCEPT !.isFlagged = TRUE ]
                   ELSE @[i] ] ]
    ELSE revealAllMines(
           IF explodedCell # NoCell
             THEN [ b EXCEPT !.cells[explodedCell].exploded = TRUE ]
             ELSE b ).board

\* afterReveal that returns once it has collected a power-up
afterRevealCollectReturns(r, p, collects) ==
  IF r.hitMine
    THEN
      LET shield == consumeShield(p)
      IN IF shield.value
           THEN [ board |-> [ r.board EXCEPT
                                !.cells[r.explodedCell].isRevealed = FALSE,
                                !.cells[r.explodedCell].isFlagged = TRUE ],
                  power |-> shield.power, over |-> Null ]
           ELSE [ board |-> gameOver(r.board, FALSE, r.explodedCell),
                  power |-> shield.power, over |-> "lost" ]
    ELSE IF collects /\ r.powerup # Null
      THEN [ board |-> r.board, power |-> collect(p, r.powerup), over |-> Null ]
    ELSE IF checkWin(r.board)
      THEN [ board |-> gameOver(r.board, TRUE, NoCell), power |-> p, over |-> "won" ]
      ELSE [ board |-> r.board, power |-> p, over |-> Null ]

\* handleReveal lines 401-434 and handleChord lines 471-502: what follows the
\* Board call r; collects says whether the handler reaches PowerUps.collect
afterReveal(r, p, collects) ==
  IF r.hitMine
    THEN
      LET shield == consumeShield(p)
      IN IF shield.value
           THEN [ board |-> [ r.board EXCEPT
                                !.cells[r.explodedCell].isRevealed = FALSE,
                                !.cells[r.explodedCell].isFlagged = TRUE ],
                  power |-> shield.power, over |-> Null ]
           ELSE [ board |-> gameOver(r.board, FALSE, r.explodedCell),
                  power |-> shield.power, over |-> "lost" ]
    ELSE
      LET p2 == IF collects /\ r.powerup # Null THEN collect(p, r.powerup) ELSE p
      IN IF checkWin(r.board)
           THEN [ board |-> gameOver(r.board, TRUE, NoCell), power |-> p2, over |-> "won" ]
           ELSE [ board |-> r.board, power |-> p2, over |-> Null ]

\* SetOutcome that leaves the session state alone unless the game ends
SetOutcomeKeepState(out, state) ==
  /\ board' = out.board
  /\ inventory' = out.power.inventory
  /\ shieldActive' = out.power.shieldActive
  /\ freezeActive' = out.power.freezeActive
  /\ freezeEndTime' = out.power.freezeEndTime
  /\ UNCHANGED freezeTimers
  /\ gameState' = IF out.over # Null THEN out.over ELSE gameState
  /\ timerInterval' = IF out.over # Null THEN FALSE
                      ELSE IF state = "playing" /\ gameState = "idle" THEN TRUE
                      ELSE timerInterval

\* the Game and PowerUps variables after a handler whose outcome is out
SetOutcome(out, state) ==
  /\ board' = out.board
  /\ inventory' = out.power.inventory
  /\ shieldActive' = out.power.shieldActive
  /\ freezeActive' = out.power.freezeActive
  /\ freezeEndTime' = out.power.freezeEndTime
  /\ UNCHANGED freezeTimers
  /\ gameState' = IF out.over # Null THEN out.over ELSE state
  /\ timerInterval' = IF out.over # Null THEN FALSE
                      ELSE IF state = "playing" /\ gameState = "idle" THEN TRUE
                      ELSE timerInterval

Init ==
  /\ \E d \in Difficulties :
       board = create(d.rows, d.cols, d.mines, GamePowerups)
  /\ result = NoResult
  /\ GameInit
  /\ PowerUpsInit
  /\ now = 0
  /\ input = InputInit

\* newGame, with the Game menu's togglePowerups entry used or not before it
newGame ==
  /\ result.op = "none"
  /\ \E d \in Difficulties, toggle \in BOOLEAN :
       LET enabled == IF toggle THEN ~ powerupsEnabled ELSE powerupsEnabled
       IN /\ powerupsEnabled' = enabled
          /\ board' = create(d.rows, d.cols, d.mines,
                             IF enabled THEN GamePowerups ELSE NoConfig)
  /\ timerInterval' = FALSE
  /\ gameState' = "idle"
  /\ timer' = 0
  /\ timerFrozenUntil' = 0
  /\ inventory' = reset(PowerState).inventory
  /\ shieldActive' = reset(PowerState).shieldActive
  /\ freezeActive' = reset(PowerState).freezeActive
  /\ freezeEndTime' = reset(PowerState).freezeEndTime
  /\ UNCHANGED freezeTimers
  /\ result' = Called("newGame", NoCell)
  /\ UNCHANGED <<now, input>>

\* handleReveal that leaves Idle and starts the timer before it looks at the cell
handleRevealStartsFirst ==
  /\ result.op = "none"
  /\ \E rc \in CallCoords(board) :
       LET row == rc[1]
           col == rc[2]
           cell == getCell(board, row, col)
       IN /\ (board.minesPlaced \/ cell = NoCell \/ <<row, col>> \in FirstClicks)
          /\ IF gameState = "won" \/ gameState = "lost"
               THEN /\ result' = Called("handleReveal", NoCell)
                    /\ UNCHANGED <<board, gameVars, powerVars>>
             ELSE IF \/ cell = NoCell
                     \/ board.cells[cell].isRevealed \/ board.cells[cell].isFlagged
               THEN /\ result' = Called("handleReveal", cell)
                    /\ gameState' = "playing"
                    /\ timerInterval' = TRUE
                    /\ UNCHANGED <<board, timer, timerFrozenUntil, powerupsEnabled,
                                   powerVars>>
               ELSE \E placed \in placeMines(board, row, col) :
                      LET r == revealCell(placed, row, col)
                          out == afterReveal(r, PowerState, TRUE)
                      IN /\ SetOutcome(out, "playing")
                         /\ result' = [ Returned("handleReveal", cell, r) EXCEPT
                                          !.accepted = TRUE,
                                          !.placed = ~ board.minesPlaced ]
                         /\ UNCHANGED <<timer, timerFrozenUntil, powerupsEnabled>>
  /\ UNCHANGED <<now, input>>

handleReveal ==
  /\ result.op = "none"
  /\ \E rc \in CallCoords(board) :
       LET row == rc[1]
           col == rc[2]
           cell == getCell(board, row, col)
       IN /\ (board.minesPlaced \/ cell = NoCell \/ <<row, col>> \in FirstClicks)
          /\ IF gameState = "won" \/ gameState = "lost"
               THEN /\ result' = Called("handleReveal", NoCell)
                    /\ UNCHANGED <<board, gameVars, powerVars>>
             ELSE IF \/ cell = NoCell
                     \/ board.cells[cell].isRevealed \/ board.cells[cell].isFlagged
               THEN /\ result' = Called("handleReveal", cell)
                    /\ UNCHANGED <<board, gameVars, powerVars>>
               ELSE \E placed \in placeMines(board, row, col) :
                      LET r == revealCell(placed, row, col)
                          out == afterReveal(r, PowerState, TRUE)
                      IN /\ SetOutcome(out, "playing")
                         /\ result' = [ Returned("handleReveal", cell, r) EXCEPT
                                          !.accepted = TRUE,
                                          !.placed = ~ board.minesPlaced ]
                         /\ UNCHANGED <<timer, timerFrozenUntil, powerupsEnabled>>
  /\ UNCHANGED <<now, input>>

\* handleFlag that marks cells of a finished game
handleFlagAfterEnd ==
  /\ result.op = "none"
  /\ \E <<row, col>> \in CallCoords(board) :
       IF ~ board.minesPlaced
         THEN /\ result' = Called("handleFlag", NoCell)
              /\ UNCHANGED board
         ELSE /\ ~ OverMarks(board, row, col)
              /\ LET r == toggleFlag(board, row, col)
                 IN /\ board' = r.board
                    /\ result' = [ Called("handleFlag", getCell(board, row, col)) EXCEPT
                                     !.accepted = TRUE,
                                     !.changed = r.changed, !.cell = r.cell ]
  /\ UNCHANGED <<gameVars, powerVars, now, input>>

\* handleFlag that marks cells before the mines are placed
handleFlagBeforeMines ==
  /\ result.op = "none"
  /\ \E <<row, col>> \in CallCoords(board) :
       IF gameState = "won" \/ gameState = "lost"
         THEN /\ result' = Called("handleFlag", NoCell)
              /\ UNCHANGED board
         ELSE /\ ~ OverMarks(board, row, col)
              /\ LET r == toggleFlag(board, row, col)
                 IN /\ board' = r.board
                    /\ result' = [ Called("handleFlag", getCell(board, row, col)) EXCEPT
                                     !.accepted = TRUE,
                                     !.changed = r.changed, !.cell = r.cell ]
  /\ UNCHANGED <<gameVars, powerVars, now, input>>

handleFlag ==
  /\ result.op = "none"
  /\ \E <<row, col>> \in CallCoords(board) :
       IF gameState = "won" \/ gameState = "lost" \/ ~ board.minesPlaced
         THEN /\ result' = Called("handleFlag", NoCell)
              /\ UNCHANGED board
         ELSE /\ ~ OverMarks(board, row, col)
              /\ LET r == toggleFlag(board, row, col)
                 IN /\ board' = r.board
                    /\ result' = [ Called("handleFlag", getCell(board, row, col)) EXCEPT
                                     !.accepted = TRUE,
                                     !.changed = r.changed, !.cell = r.cell ]
  /\ UNCHANGED <<gameVars, powerVars, now, input>>

handleChord ==
  /\ result.op = "none"
  /\ \E <<row, col>> \in CallCoords(board) :
       IF gameState = "won" \/ gameState = "lost" \/ ~ board.minesPlaced
         THEN /\ result' = Called("handleChord", NoCell)
              /\ UNCHANGED <<board, gameVars, powerVars>>
         ELSE LET r == chordReveal(board, row, col)
                  out == afterReveal(r, PowerState, Len(r.revealed) > 0)
              IN /\ SetOutcome(out, gameState)
                 /\ result' = [ Returned("handleChord", getCell(board, row, col), r) EXCEPT
                                  !.accepted = TRUE ]
                 /\ UNCHANGED <<timer, timerFrozenUntil, powerupsEnabled>>
  /\ UNCHANGED <<now, input>>

\* usePowerup with PowerUps.use and the updateCells callback it passes
usePowerup ==
  /\ result.op = "none"
  /\ \E type \in Range(PowerupTypes) :
       LET index == findIndex(inventory, type)
       IN IF gameState # "playing" \/ index = 0
            THEN /\ result' = [ Called("usePowerup", NoCell) EXCEPT !.powerup = type ]
                 /\ UNCHANGED <<board, gameVars, powerVars>>
          ELSE IF type = "freeze"
            THEN /\ inventory' = splice(inventory, index)
                 /\ freezeActive' = activateFreeze(PowerState, now).freezeActive
                 /\ freezeEndTime' = activateFreeze(PowerState, now).freezeEndTime
                 /\ freezeTimers' = freezeTimers \cup {now + FreezeDuration}
                 /\ timerFrozenUntil' = now + FreezeDuration
                 /\ result' = [ Called("usePowerup", NoCell) EXCEPT
                                  !.powerup = type, !.accepted = TRUE, !.value = TRUE ]
                 /\ UNCHANGED <<board, gameState, timer, timerInterval,
                                powerupsEnabled, shieldActive>>
          ELSE IF type = "safeReveal"
            THEN \E out \in activateSafeReveal(board) :
                   LET won == Len(out.revealed) > 0 /\ checkWin(out.board)
                   IN /\ inventory' = splice(inventory, index)
                      /\ board' = IF won THEN gameOver(out.board, TRUE, NoCell)
                                         ELSE out.board
                      /\ gameState' = IF won THEN "won" ELSE gameState
                      /\ timerInterval' = IF won THEN FALSE ELSE timerInterval
                      /\ result' = [ Called("usePowerup", NoCell) EXCEPT
                                       !.powerup = type, !.accepted = TRUE,
                                       !.value = TRUE, !.revealed = out.revealed ]
                      /\ UNCHANGED <<timer, timerFrozenUntil, powerupsEnabled,
                                     shieldActive, freezeActive, freezeEndTime,
                                     freezeTimers>>
          ELSE /\ inventory' = splice(inventory, index)
               /\ result' = [ Called("usePowerup", NoCell) EXCEPT
                                !.powerup = type, !.accepted = TRUE, !.value = TRUE ]
               /\ UNCHANGED <<board, gameVars, shieldActive, freezeActive,
                              freezeEndTime, freezeTimers>>
  /\ UNCHANGED <<now, input>>

Next ==
  \/ Return
  \/ newGame
  \/ handleReveal
  \/ handleFlag
  \/ handleChord
  \/ usePowerup

Spec == Init /\ [][Next]_vars

----------------------------------------------------------------------------
(* The Game session with its timer: the setInterval callback of startTimer *)
(* and the passing of time, on a small board whose power-ups freeze        *)

\* the fallback of `config.timing.maxTimer || 999`, and timing.maxTimer of
\* getDefaultConfig
DefaultMaxTimer == 999

\* config.timing.maxTimer || 999
maxTimer(configured) == IF configured = 0 THEN DefaultMaxTimer ELSE configured

\* isTimerFrozen that only reads the flag
isTimerFrozenNoExpiry(p, t) == [ power |-> p, value |-> p.freezeActive ]

\* PowerUps.isTimerFrozen at time t: the state it leaves and the value it returns
isTimerFrozen(p, t) ==
  IF p.freezeActive /\ t >= p.freezeEndTime
    THEN [ power |-> [ p EXCEPT !.freezeActive = FALSE ], value |-> FALSE ]
    ELSE [ power |-> p, value |-> p.freezeActive ]

\* a timer that no freeze holds
timerFrozenNever(p, until, t) == FALSE

\* the test of the interval callback, line 368
timerFrozen(p, until, t) == isTimerFrozen(p, t).value \/ t < until

\* the counter after a tick that does not stop at the maximum
tickTimerNoClamp(t, max) == t + 1

\* timer++ and the clamp, lines 372-375
tickTimer(t, max) == IF t + 1 > max THEN max ELSE t + 1

\* the time that passes in one step of the clock
TimeStep == FreezeDuration \div 2

TimerDifficulties == { [rows |-> 2, cols |-> 3, mines |-> 1] }

TimerPowerups == [ DefaultPowerups EXCEPT !.types = <<"freeze">> ]

\* newGame on one of the difficulties, with powerups as config.powerups
newGameOf(difficulties, powerups) ==
  /\ result.op = "none"
  /\ \E d \in difficulties, toggle \in BOOLEAN :
       LET enabled == IF toggle THEN ~ powerupsEnabled ELSE powerupsEnabled
       IN /\ powerupsEnabled' = enabled
          /\ board' = create(d.rows, d.cols, d.mines,
                             IF enabled THEN powerups ELSE NoConfig)
  /\ timerInterval' = FALSE
  /\ gameState' = "idle"
  /\ timer' = 0
  /\ timerFrozenUntil' = 0
  /\ inventory' = reset(PowerState).inventory
  /\ shieldActive' = reset(PowerState).shieldActive
  /\ freezeActive' = reset(PowerState).freezeActive
  /\ freezeEndTime' = reset(PowerState).freezeEndTime
  /\ UNCHANGED freezeTimers
  /\ result' = Called("newGame", NoCell)
  /\ UNCHANGED <<now, input>>

TimerInit ==
  /\ \E d \in TimerDifficulties :
       board = create(d.rows, d.cols, d.mines, TimerPowerups)
  /\ result = NoResult
  /\ GameInit
  /\ PowerUpsInit
  /\ now = 0
  /\ input = InputInit

TimerNewGame == newGameOf(TimerDifficulties, TimerPowerups)

\* the callback startTimer hands to setInterval; it runs while the interval
\* is set, at any time
tick ==
  /\ result.op = "none"
  /\ timerInterval
  /\ freezeActive' = isTimerFrozen(PowerState, now).power.freezeActive
  /\ IF timerFrozen(PowerState, timerFrozenUntil, now)
       THEN /\ timer' = timer
            /\ result' = Called("tick", NoCell)
       ELSE /\ timer' = tickTimer(timer, maxTimer(ConfigMaxTimer))
            /\ result' = [ Called("tick", NoCell) EXCEPT !.accepted = TRUE ]
  /\ UNCHANGED <<board, gameState, timerInterval, timerFrozenUntil,
                 powerupsEnabled, inventory, shieldActive, freezeEndTime,
                 freezeTimers, now, input>>

\* a callback that ends the freeze whenever it runs
freezeCallbackNoCheck(p, t) == [ p EXCEPT !.freezeActive = FALSE ]

\* the state the callback of activateFreeze's setTimeout leaves at time t,
\* lines 191-197
freezeCallback(p, t) ==
  IF p.freezeActive /\ t >= p.freezeEndTime
    THEN [ p EXCEPT !.freezeActive = FALSE ]
    ELSE p

\* a callback that activateFreeze scheduled runs, no earlier than it is due
freezeTimeout ==
  /\ result.op = "none"
  /\ \E due \in freezeTimers :
       /\ now >= due
       /\ freezeTimers' = freezeTimers \ {due}
       /\ freezeActive' = freezeCallback(PowerState, now).freezeActive
       /\ result' = [ Called("freezeTimeout", NoCell) EXCEPT
                        !.value = (freezeActive /\ ~ freezeActive') ]
  /\ UNCHANGED <<board, gameVars, inventory, shieldActive, freezeEndTime, now, input>>

\* Date.now() grows
advanceTime ==
  /\ result.op = "none"
  /\ now + TimeStep <= MaxNow
  /\ now' = now + TimeStep
  /\ UNCHANGED <<board, result, gameVars, powerVars, input>>

TimerNext ==
  \/ Return
  \/ TimerNewGame
  \/ handleReveal
  \/ handleFlag
  \/ handleChord
  \/ usePowerup
  \/ tick
  \/ freezeTimeout
  \/ advanceTime

TimerSpec == TimerInit /\ [][TimerNext]_vars

----------------------------------------------------------------------------
(* ShieldSpec: the Game session on a small board with two mines, shields   *)
(* for power-ups and up to MaxFlagMarks marked cells                       *)

ShieldDifficulties == { [rows |-> 2, cols |-> 3, mines |-> 2] }

ShieldPowerups == [ DefaultPowerups EXCEPT !.types = <<"shield">> ]

ShieldInit ==
  /\ \E d \in ShieldDifficulties :
       board = create(d.rows, d.cols, d.mines, ShieldPowerups)
  /\ result = NoResult
  /\ GameInit
  /\ PowerUpsInit
  /\ now = 0
  /\ input = InputInit

ShieldNewGame == newGameOf(ShieldDifficulties, ShieldPowerups)

\* handleFlag, followed up to MaxFlagMarks marked cells
ShieldHandleFlag ==
  /\ result.op = "none"
  /\ \E <<row, col>> \in CallCoords(board) :
       IF gameState = "won" \/ gameState = "lost" \/ ~ board.minesPlaced
         THEN /\ result' = Called("handleFlag", NoCell)
              /\ UNCHANGED board
         ELSE /\ ~ OverFlagMarks(board, row, col)
              /\ LET r == toggleFlag(board, row, col)
                 IN /\ board' = r.board
                    /\ result' = [ Called("handleFlag", getCell(board, row, col)) EXCEPT
                                     !.accepted = TRUE,
                                     !.changed = r.changed, !.cell = r.cell ]
  /\ UNCHANGED <<gameVars, powerVars, now, input>>

ShieldNext ==
  \/ Return
  \/ ShieldNewGame
  \/ handleReveal
  \/ ShieldHandleFlag
  \/ handleChord
  \/ usePowerup

ShieldSpec == ShieldInit /\ [][ShieldNext]_vars

----------------------------------------------------------------------------
(* PowerSpec: the PowerUps API called directly, the callbacks of Game.init *)
(* registered, with time passing and the freeze callbacks running          *)

\* the kinds PowerUps.use is called with: those whose activation needs no board
UseKinds == {"shield", "detector", "freeze"}

PowerInit ==
  /\ board = create(2, 3, 1, DefaultPowerups)
  /\ result = NoResult
  /\ GameInit
  /\ PowerUpsInit
  /\ now = 0
  /\ input = InputInit

CallReset ==
  /\ result.op = "none"
  /\ inventory' = reset(PowerState).inventory
  /\ shieldActive' = reset(PowerState).shieldActive
  /\ freezeActive' = reset(PowerState).freezeActive
  /\ freezeEndTime' = reset(PowerState).freezeEndTime
  /\ result' = Called("reset", NoCell)
  /\ UNCHANGED <<board, gameVars, freezeTimers, now, input>>

CallCollect ==
  /\ result.op = "none"
  /\ \E type \in Range(PowerupTypes) :
       /\ (type = "shield" \/ Len(inventory) < MaxInventory)
       /\ inventory' = collect(PowerState, type).inventory
       /\ shieldActive' = collect(PowerState, type).shieldActive
       /\ result' = [ Called("collect", NoCell) EXCEPT !.powerup = type ]
  /\ UNCHANGED <<board, gameVars, freezeActive, freezeEndTime, freezeTimers, now, input>>

\* use(type, game), with the onFreezeChange callback of Game.init
CallUse ==
  /\ result.op = "none"
  /\ \E type \in UseKinds :
       LET index == findIndex(inventory, type)
       IN IF index = 0
            THEN /\ result' = [ Called("use", NoCell) EXCEPT !.powerup = type ]
                 /\ UNCHANGED <<gameVars, powerVars>>
          ELSE IF type = "freeze"
            THEN /\ inventory' = splice(inventory, index)
                 /\ freezeActive' = activateFreeze(PowerState, now).freezeActive
                 /\ freezeEndTime' = activateFreeze(PowerState, now).freezeEndTime
                 /\ freezeTimers' = freezeTimers \cup {now + FreezeDuration}
                 /\ timerFrozenUntil' = now + FreezeDuration
                 /\ result' = [ Called("use", NoCell) EXCEPT
                                  !.powerup = type, !.value = TRUE ]
                 /\ UNCHANGED <<gameState, timer, timerInterval, powerupsEnabled,
                                shieldActive>>
          ELSE /\ inventory' = splice(inventory, index)
               /\ result' = [ Called("use", NoCell) EXCEPT
                                !.powerup = type, !.value = TRUE ]
               /\ UNCHANGED <<gameVars, shieldActive, freezeActive, freezeEndTime,
                              freezeTimers>>
  /\ UNCHANGED <<board, now, input>>

\* consumeShield, also called again right after it returned
CallConsumeShield ==
  /\ result.op \in {"none", "consumeShield"}
  /\ shieldActive' = consumeShield(PowerState).power.shieldActive
  /\ result' = [ Called("consumeShield", NoCell) EXCEPT
                   !.value = consumeShield(PowerState).value ]
  /\ UNCHANGED <<board, gameVars, inventory, freezeActive, freezeEndTime,
                 freezeTimers, now, input>>

CallIsTimerFrozen ==
  /\ result.op = "none"
  /\ freezeActive' = isTimerFrozen(PowerState, now).power.freezeActive
  /\ result' = [ Called("isTimerFrozen", NoCell) EXCEPT
                   !.value = isTimerFrozen(PowerState, now).value ]
  /\ UNCHANGED <<board, gameVars, inventory, shieldActive, freezeEndTime,
                 freezeTimers, now, input>>

PowerNext ==
  \/ Return
  \/ CallReset
  \/ CallCollect
  \/ CallUse
  \/ CallConsumeShield
  \/ CallIsTimerFrozen
  \/ freezeTimeout
  \/ advanceTime

PowerSpec == PowerInit /\ [][PowerNext]_vars

----------------------------------------------------------------------------
(* The Game session on a small board where one pass spawns several         *)
(* power-up cells, of three kinds                                          *)

PickupDifficulties == { [rows |-> 2, cols |-> 3, mines |-> 1] }

PickupPowerups ==
  [ DefaultPowerups EXCEPT !.types = <<"shield", "safeReveal", "detector">>,
                           !.cap = MaxPickups ]

PickupInit ==
  /\ \E d \in PickupDifficulties :
       board = create(d.rows, d.cols, d.mines, PickupPowerups)
  /\ result = NoResult
  /\ GameInit
  /\ PowerUpsInit
  /\ now = 0
  /\ input = InputInit

PickupNewGame == newGameOf(PickupDifficulties, PickupPowerups)

PickupNext ==
  \/ Return
  \/ PickupNewGame
  \/ handleReveal
  \/ handleFlag
  \/ handleChord
  \/ usePowerup

PickupSpec == PickupInit /\ [][PickupNext]_vars

----------------------------------------------------------------------------
(* Properties *)

MineCells(b) == { i \in DOMAIN b.cells : b.cells[i].isMine }

\* cells i and j are distinct and touch, by side or by corner
Near(b, i, j) ==
  /\ i # j
  /\ b.cells[i].row - b.cells[j].row \in {-1, 0, 1}
  /\ b.cells[i].col - b.cells[j].col \in {-1, 0, 1}

\* cell t and the cells of the board that touch it
Zone(b, t) == {t} \cup { j \in DOMAIN b.cells : Near(b, t, j) }

\* the last step is a call of op made from the state before it
CallStep(op) == result.op = "none" /\ result'.op = op

\* the last call was placeMines on a board without mines
JustPlaced == result.op = "placeMines" /\ result.placed

\* C1: after placeMines with an in-bounds first click, neither the clicked
\* cell nor any cell touching it is a mine
C1_SafeZoneMineFree ==
  JustPlaced => \A j \in Zone(board, result.target) : ~ board.cells[j].isMine

\* an inner first click, nine safe cells, and mines on the board
C1_Witness ==
  /\ JustPlaced
  /\ Cardinality(Zone(board, result.target)) = 9
  /\ MineCells(board) # {}

\* C2: the handleReveal that places the mines hits no mine and leaves the
\* game playing or won, never lost
C2_FirstRevealSafe ==
  (result.op = "handleReveal" /\ result.placed) =>
    /\ ~ result.hitMine
    /\ ~ board.cells[result.target].isMine
    /\ gameState \in {"playing", "won"}

\* a first reveal that placed mines and left the game going
C2_Witness ==
  /\ result.op = "handleReveal"
  /\ result.placed
  /\ gameState = "playing"
  /\ MineCells(board) # {}

\* C3: once the mines are placed, adjacentMines of every cell that is not a
\* mine is the number of mines among the cells touching it
C3_AdjacentMinesCorrect ==
  board.minesPlaced =>
    \A i \in DOMAIN board.cells :
      ~ board.cells[i].isMine =>
        board.cells[i].adjacentMines =
          Cardinality({ j \in MineCells(board) : Near(board, i, j) })

\* a game under way with a revealed cell that touches two mines
C3_Witness ==
  /\ board.minesPlaced
  /\ gameState = "playing"
  /\ \E i \in DOMAIN board.cells :
       /\ board.cells[i].isRevealed
       /\ ~ board.cells[i].isMine
       /\ board.cells[i].adjacentMines = 2

\* C4: placeMines leaves exactly min(mineCount, cells outside the safe zone) mines
C4_MineCountClamped ==
  JustPlaced =>
    Cardinality(MineCells(board)) =
      Min(board.mineCount,
          Cardinality(DOMAIN board.cells \ Zone(board, result.target)))

\* more mines asked for than cells outside the safe zone, and some placed
C4_Witness ==
  /\ JustPlaced
  /\ MineCells(board) # {}
  /\ Cardinality(MineCells(board)) < board.mineCount

\* C5 as stated: placeMines leaves between 0 and rows*cols - 9 mines
C5_AtMostCellsMinusNine ==
  JustPlaced =>
    /\ Cardinality(MineCells(board)) >= 0
    /\ Cardinality(MineCells(board)) <= board.rows * board.cols - 9

\* C5, amended: placeMines leaves between 0 and rows*cols - s mines, s being
\* the size of the safe zone (9 cells only for an inner first click)
C5_AtMostCellsMinusZone ==
  JustPlaced =>
    /\ Cardinality(MineCells(board)) >= 0
    /\ Cardinality(MineCells(board)) <=
         board.rows * board.cols - Cardinality(Zone(board, result.target))

\* a first click on the border: every cell outside its smaller safe zone is mined
C5_Witness ==
  /\ JustPlaced
  /\ Cardinality(Zone(board, result.target)) < 9
  /\ MineCells(board) = DOMAIN board.cells \ Zone(board, result.target)
  /\ Cardinality(MineCells(board)) > board.rows * board.cols - 9
  /\ Cardinality(MineCells(board)) > 0

\* C6: create fails with InvalidDimensions exactly when rows or cols is not positive
C6_CreateRejectsNonPositive ==
  result.op = "create" =>
    ((board.rows <= 0 \/ board.cols <= 0) <=> result.error = "InvalidDimensions")

\* C7: revealCell on coordinates out of bounds, or on a revealed or flagged
\* cell, returns no cell and no mine hit and leaves the board as it was
C7_RevealNoOp ==
  [][ ( /\ CallStep("revealCell")
        /\ \/ result'.target = NoCell
           \/ board.cells[result'.target].isRevealed
           \/ board.cells[result'.target].isFlagged )
      => /\ result'.revealed = <<>>
         /\ ~ result'.hitMine
         /\ board' = board ]_vars

\* revealCell was called on a flagged cell
C7_Witness ==
  /\ result.op = "revealCell"
  /\ result.target # NoCell
  /\ board.cells[result.target].isFlagged
  /\ ~ board.cells[result.target].isRevealed
  /\ result.revealed = <<>>

\* C8: revealCell on an unrevealed, unflagged mine reveals that cell alone
\* and reports it as the exploded cell
C8_RevealMine ==
  [][ ( /\ CallStep("revealCell")
        /\ result'.target # NoCell
        /\ board.cells[result'.target].isMine
        /\ ~ board.cells[result'.target].isRevealed
        /\ ~ board.cells[result'.target].isFlagged )
      => /\ result'.revealed = << result'.target >>
         /\ result'.hitMine
         /\ result'.explodedCell = result'.target
         /\ board' = [ board EXCEPT !.cells[result'.target].isRevealed = TRUE ] ]_vars

\* revealCell was called on a mine
C8_Witness ==
  /\ result.op = "revealCell"
  /\ result.hitMine
  /\ result.explodedCell = result.target
  /\ board.cells[result.target].isMine
  /\ board.cells[result.target].isRevealed

\* empty cell: not a mine and no mine touching it
EmptyCell(b, i) == ~ b.cells[i].isMine /\ b.cells[i].adjacentMines = 0

RECURSIVE Connected(_, _, _)
\* the cells of Through reachable from the set From by steps between touching cells
Connected(b, Through, From) ==
  LET more == From \cup { j \in Through : \E i \in From : Near(b, i, j) }
  IN IF more = From THEN From ELSE Connected(b, Through, more)

\* the cells outside Comp that touch it and are not mines
Bordering(b, Comp) ==
  { j \in DOMAIN b.cells \ Comp :
      ~ b.cells[j].isMine /\ \E i \in Comp : Near(b, i, j) }

\* a revealCell call on an unrevealed, unflagged empty cell
RevealsEmptyCell ==
  /\ CallStep("revealCell")
  /\ result'.target # NoCell
  /\ EmptyCell(board, result'.target)
  /\ ~ board.cells[result'.target].isRevealed
  /\ ~ board.cells[result'.target].isFlagged

\* C9 as stated: revealCell on an empty cell reveals the whole connected
\* component of empty cells and every numbered cell bordering it
C9_CascadeRevealsComponent ==
  [][ RevealsEmptyCell =>
        LET comp == Connected(board,
                              { i \in DOMAIN board.cells : EmptyCell(board, i) },
                              { result'.target })
        IN \A j \in comp \cup Bordering(board, comp) : board'.cells[j].isRevealed ]_vars

\* C9, amended: a revealCell on an empty cell that returns no power-up
\* reveals the connected component of unrevealed, unflagged empty cells and
\* every unflagged cell bordering it that is not a mine; no flagged cell changes
C9_CascadeRevealsOpenComponent ==
  [][ RevealsEmptyCell =>
        LET open == { i \in DOMAIN board.cells :
                        /\ EmptyCell(board, i)
                        /\ ~ board.cells[i].isRevealed
                        /\ ~ board.cells[i].isFlagged }
            comp == Connected(board, open, { result'.target })
        IN /\ result'.powerup = Null =>
                \A j \in comp \cup Bordering(board, comp) :
                  ~ board.cells[j].isFlagged => board'.cells[j].isRevealed
           /\ \A j \in DOMAIN board.cells :
                board.cells[j].isFlagged => board'.cells[j] = board.cells[j] ]_vars

\* a cascade from an empty cell that went round a flagged cell
C9_Witness ==
  /\ result.op = "revealCell"
  /\ result.target # NoCell
  /\ EmptyCell(board, result.target)
  /\ result.powerup = Null
  /\ Len(result.revealed) >= 3
  /\ \E j \in DOMAIN board.cells :
       /\ board.cells[j].isFlagged
       /\ ~ board.cells[j].isRevealed
       /\ ~ board.cells[j].isMine
       /\ \E k \in 1 .. Len(result.revealed) :
            /\ Near(board, result.revealed[k], j)
            /\ EmptyCell(board, result.revealed[k])

\* no element of the sequence occurs twice
NoDuplicates(seq) ==
  \A k1, k2 \in 1 .. Len(seq) : k1 # k2 => seq[k1] # seq[k2]

\* C10: the list revealCell or chordReveal returns holds no cell twice, and
\* every cell in it was unrevealed before the call
C10_RevealedListDistinct ==
  [][ (CallStep("revealCell") \/ CallStep("chordReveal")) =>
        /\ NoDuplicates(result'.revealed)
        /\ \A k \in 1 .. Len(result'.revealed) :
             ~ board.cells[result'.revealed[k]].isRevealed ]_vars

\* a chord that revealed several cells
C10_Witness ==
  /\ result.op = "chordReveal"
  /\ Len(result.revealed) >= 3

\* the most pops one call can make: the start cell, and at most eight pushes
\* for every cell of the board
PopBound(b) == 1 + 8 * Cardinality(DOMAIN b.cells)

\* the loop is running, or has just returned
InRevealCall == result.op \in {"revealLoop", "revealCell"}

\* the last step is one iteration of the loop
PopStep == result.op = "revealLoop" /\ result'.op \in {"revealLoop", "revealCell"}

\* C11: revealCell terminates: a call makes at most PopBound pops, every pop
\* either skips its cell (the work list shrinks, nothing else changes) or marks
\* one more cell revealed, and a running loop eventually returns
C11_RevealTerminates ==
  /\ [](InRevealCall => result.pops <= PopBound(board))
  /\ [][ PopStep =>
           \/ /\ board' = board
              /\ result'.revealed = result.revealed
              /\ Len(result'.toReveal) = Len(result.toReveal) - 1
           \/ \E c \in DOMAIN board.cells :
                /\ ~ board.cells[c].isRevealed
                /\ board' = [ board EXCEPT !.cells[c].isRevealed = TRUE ]
                /\ result'.revealed = Append(result.revealed, c) ]_vars
  /\ (result.op = "revealLoop") ~> (result.op = "revealCell")

\* a call that returned with an empty work list after a cascade with skipped pops
C11_Witness ==
  /\ result.op = "revealCell"
  /\ result.toReveal = <<>>
  /\ Len(result.revealed) >= 4
  /\ result.pops > Len(result.revealed)

\* the cell the next iteration pops
Current == result.toReveal[Len(result.toReveal)]

\* C12: when the loop pops an unrevealed, unflagged cell that is not a mine
\* and carries a power-up, it reveals that cell, returns its power-up kind at
\* once, and reveals nothing else, whatever is left on the work list
C12_PowerupStopsReveal ==
  [][ ( /\ result.op = "revealLoop"
        /\ result'.op \in {"revealLoop", "revealCell"}
        /\ ~ board.cells[Current].isRevealed
        /\ ~ board.cells[Current].isFlagged
        /\ ~ board.cells[Current].isMine
        /\ board.cells[Current].powerup # Null )
      => /\ result'.op = "revealCell"
         /\ result'.powerup = board.cells[Current].powerup
         /\ ~ result'.hitMine
         /\ board' = [ board EXCEPT !.cells[Current].isRevealed = TRUE ]
         /\ result'.revealed = Append(result.revealed, Current)
         /\ result'.toReveal = SubSeq(result.toReveal, 1, Len(result.toReveal) - 1) ]_vars

\* a call that returned a power-up found in a cascade, with unrevealed cells
\* still on its work list
C12_Witness ==
  /\ result.op = "revealCell"
  /\ result.powerup # Null
  /\ Len(result.revealed) >= 2
  /\ board.cells[result.revealed[Len(result.revealed)]].powerup = result.powerup
  /\ \E k \in 1 .. Len(result.toReveal) :
       ~ board.cells[result.toReveal[k]].isRevealed

\* C13: a revealCell call started on a cell that is not a mine never reveals
\* a mine: at every iteration and at its return hitMine is false and no cell
\* of revealed is a mine
C13_CascadeNeverRevealsMine ==
  ( /\ InRevealCall
    /\ result.target # NoCell
    /\ ~ board.cells[result.target].isMine )
  => /\ ~ result.hitMine
     /\ result.explodedCell = NoCell
     /\ \A k \in 1 .. Len(result.revealed) : ~ board.cells[result.revealed[k]].isMine

\* a cascade that returned after revealing cells next to a mine it left covered
C13_Witness ==
  /\ result.op = "revealCell"
  /\ result.target # NoCell
  /\ EmptyCell(board, result.target)
  /\ Len(result.revealed) >= 4
  /\ \E i \in MineCells(board) :
       /\ ~ board.cells[i].isRevealed
       /\ \E k \in 1 .. Len(result.revealed) : Near(board, i, result.revealed[k])

\* the flagged cells touching cell t
FlaggedNear(b, t) == { j \in DOMAIN b.cells : Near(b, t, j) /\ b.cells[j].isFlagged }

\* the cells touching t that are neither revealed nor flagged
CoveredNear(b, t) ==
  { j \in DOMAIN b.cells :
      Near(b, t, j) /\ ~ b.cells[j].isRevealed /\ ~ b.cells[j].isFlagged }

\* cell t is revealed, numbered, and touched by as many flags as its number
ChordMatches(b, t) ==
  /\ t # NoCell
  /\ b.cells[t].isRevealed
  /\ b.cells[t].adjacentMines # 0
  /\ Cardinality(FlaggedNear(b, t)) = b.cells[t].adjacentMines

\* C14: chordReveal returns no cell, no mine hit and no power-up and leaves
\* the board as it was when the target is out of bounds, unrevealed, has
\* adjacentMines = 0, or is touched by fewer or more flags than its number
C14_ChordNoOp ==
  [][ (CallStep("chordReveal") /\ ~ ChordMatches(board, result'.target))
      => /\ result'.revealed = <<>>
         /\ ~ result'.hitMine
         /\ result'.powerup = Null
         /\ board' = board ]_vars

\* a chord on a number touched by more flags than its number, with covered
\* cells around it
C14_Witness ==
  /\ result.op = "chordReveal"
  /\ result.target # NoCell
  /\ board.cells[result.target].isRevealed
  /\ board.cells[result.target].adjacentMines > 0
  /\ Cardinality(FlaggedNear(board, result.target)) > board.cells[result.target].adjacentMines
  /\ CoveredNear(board, result.target) # {}
  /\ result.revealed = <<>>

\* how often cell c occurs in the sequence
Occurrences(seq, c) == Cardinality({ k \in 1 .. Len(seq) : seq[k] = c })

\* C15: a chordReveal on a revealed number touched by as many flags as its
\* number leaves every neighbour that was neither revealed nor flagged
\* revealed, and lists it exactly once
C15_ChordRevealsNeighbours ==
  [][ (CallStep("chordReveal") /\ ChordMatches(board, result'.target))
      => \A j \in CoveredNear(board, result'.target) :
           /\ board'.cells[j].isRevealed
           /\ Occurrences(result'.revealed, j) = 1 ]_vars

\* a chord that hit a mine and still revealed a neighbour after it
C15_Witness ==
  /\ result.op = "chordReveal"
  /\ result.hitMine
  /\ Len(result.revealed) >= 2
  /\ \E k \in 2 .. Len(result.revealed) :
       /\ board.cells[result.revealed[k - 1]].isMine
       /\ Near(board, result.target, result.revealed[k])

\* the first cell of the sequence that satisfies Test, NoCell when there is none
FirstCell(seq, Test(_)) ==
  IF \E k \in 1 .. Len(seq) : Test(seq[k])
    THEN seq[CHOOSE k \in 1 .. Len(seq) :
               Test(seq[k]) /\ \A j \in 1 .. (k - 1) : ~ Test(seq[j])]
    ELSE NoCell

\* C16: a chordReveal that goes through its neighbours reports as explodedCell
\* the first mine it revealed and as power-up the kind of the first power-up
\* cell it revealed, and reveals every covered neighbour
C16_ChordReportsFirst ==
  [][ (CallStep("chordReveal") /\ ChordMatches(board, result'.target))
      => LET firstMine == FirstCell(result'.revealed, LAMBDA c : board.cells[c].isMine)
             firstPowerup == FirstCell(result'.revealed,
                                       LAMBDA c : /\ ~ board.cells[c].isMine
                                                  /\ board.cells[c].powerup # Null)
         IN /\ result'.explodedCell = firstMine
            /\ result'.powerup = IF firstPowerup = NoCell THEN Null
                                  ELSE board.cells[firstPowerup].powerup
            /\ \A j \in CoveredNear(board, result'.target) :
                 board'.cells[j].isRevealed ]_vars

\* C19: checkWin returns true exactly when every cell is a mine or revealed,
\* whatever flags and question marks the board carries
C19_CheckWin ==
  result.op = "checkWin" =>
    (result.value <=>
       \A i \in DOMAIN board.cells : board.cells[i].isMine \/ board.cells[i].isRevealed)

\* checkWin returned true on a board with a mine that is neither flagged nor
\* revealed and one that carries a mark
C19_Witness ==
  /\ result.op = "checkWin"
  /\ result.value
  /\ \E i \in MineCells(board) :
       ~ board.cells[i].isFlagged /\ ~ board.cells[i].isRevealed
  /\ Marked(board) # {}

\* the flag and the question mark of cell i
Marks(b, i) == << b.cells[i].isFlagged, b.cells[i].isQuestion >>

\* C17: on every board, toggleFlag on an unrevealed cell in bounds goes
\* unmarked -> flagged -> questioned -> unmarked, so three toggles of the same
\* cell give the board back; on a revealed cell or out of bounds it returns
\* changed = false and the board as it was
C17_ToggleCycle ==
  \A rc \in CallCoords(board) :
    LET cell == getCell(board, rc[1], rc[2])
        t1 == toggleFlag(board, rc[1], rc[2])
        t2 == toggleFlag(t1.board, rc[1], rc[2])
        t3 == toggleFlag(t2.board, rc[1], rc[2])
    IN IF cell = NoCell \/ board.cells[cell].isRevealed
         THEN ~ t1.changed /\ t1.board = board
         ELSE /\ t1.changed /\ t2.changed /\ t3.changed
              /\ t3.board = board
              /\ Marks(board, cell) = <<FALSE, FALSE>> =>
                   /\ Marks(t1.board, cell) = <<TRUE, FALSE>>
                   /\ Marks(t2.board, cell) = <<FALSE, TRUE>>

\* C18: no unrevealed cell is flagged and questioned at the same time
C18_OneMarkAtMost ==
  \A i \in DOMAIN board.cells :
    ~ board.cells[i].isRevealed =>
      ~ (board.cells[i].isFlagged /\ board.cells[i].isQuestion)

\* C20: a handleReveal that hits a mine while the shield is active leaves the
\* mine unrevealed and flagged, clears the shield and keeps the game playing;
\* one that hits a mine with no shield ends the game lost
C20_ShieldSaves ==
  [][ (CallStep("handleReveal") /\ result'.hitMine)
      => IF shieldActive
           THEN /\ ~ board'.cells[result'.explodedCell].isRevealed
                /\ board'.cells[result'.explodedCell].isFlagged
                /\ ~ shieldActive'
                /\ gameState = "playing"
                /\ gameState' = "playing"
           ELSE /\ gameState' = "lost"
                /\ board'.cells[result'.explodedCell].isRevealed ]_vars

\* the shield has just saved the game from a mine
C20_Witness ==
  /\ result.op = "handleReveal"
  /\ result.hitMine
  /\ gameState = "playing"
  /\ ~ shieldActive
  /\ board.cells[result.explodedCell].isMine
  /\ board.cells[result.explodedCell].isFlagged
  /\ ~ board.cells[result.explodedCell].isRevealed

----------------------------------------------------------------------------
(* The session: Idle, Playing, Won, Lost *)

Terminal(state) == state = "won" \/ state = "lost"

\* C21: once the session is Won or Lost it stays so until newGame: every other
\* step (handleReveal, handleFlag, handleChord, usePowerup, a tick, the
\* passing of time) leaves the session state, the board's cells, the inventory
\* and the elapsed seconds as they are; Won never becomes Lost nor Lost Won
C21_TerminalStays ==
  [][ (Terminal(gameState) /\ result'.op # "newGame")
        => /\ gameState' = gameState
           /\ board'.cells = board.cells
           /\ inventory' = inventory
           /\ timer' = timer ]_vars

\* a finished game with an item left, where usePowerup was called for it
C21_Witness ==
  /\ Terminal(gameState)
  /\ result.op = "usePowerup"
  /\ findIndex(inventory, result.powerup) # 0

\* C22: the session is Idle exactly when the board's mines are not placed;
\* mines are placed, and Idle is left, only by an accepted handleReveal that
\* finds no mines placed, and that call keeps the clicked cell and its
\* neighbours free of mines; no later call moves a mine
C22_IdleIffNoMines ==
  /\ [](gameState = "idle" <=> ~ board.minesPlaced)
  /\ [][ ((~ board.minesPlaced /\ board'.minesPlaced)
            \/ (gameState = "idle" /\ gameState' # "idle"))
          => /\ result'.op = "handleReveal"
             /\ result'.accepted /\ result'.placed
             /\ ~ board.minesPlaced /\ board'.minesPlaced
             /\ gameState = "idle" /\ gameState' # "idle"
             /\ MineCells(board') \cap Zone(board', result'.target) = {} ]_vars
  /\ [][ (board.minesPlaced /\ result'.op # "newGame")
          => MineCells(board') = MineCells(board) ]_vars

\* a second accepted handleReveal of a game, the session Playing
C22_Witness ==
  /\ gameState = "playing"
  /\ result.op = "handleReveal" /\ result.accepted /\ ~ result.placed
  /\ MineCells(board) # {}

\* the reveal asks for no cell, a revealed cell or a flagged one
NoOpReveal ==
  \/ result'.target = NoCell
  \/ board.cells[result'.target].isRevealed
  \/ board.cells[result'.target].isFlagged

\* C23: a handleReveal that is a no-op (coordinates out of range, a revealed
\* cell, a flagged cell) places no mines, does not start the timer and leaves
\* the session state and the board as they are; in Idle the session stays Idle
\* with no mines placed
C23_NoOpRevealStartsNothing ==
  [][ (CallStep("handleReveal") /\ NoOpReveal)
        => /\ board' = board
           /\ gameState' = gameState
           /\ timerInterval' = timerInterval
           /\ timer' = timer
           /\ ~ result'.accepted /\ ~ result'.placed
           /\ (gameState = "idle"
                 => gameState' = "idle" /\ ~ board'.minesPlaced) ]_vars

\* an Idle session after a handleReveal outside the board
C23_Witness ==
  /\ result.op = "handleReveal" /\ result.target = NoCell
  /\ gameState = "idle" /\ ~ board.minesPlaced /\ ~ timerInterval

\* C26: while the session is Idle, handleFlag, handleChord and usePowerup
\* leave the board, the inventory, the shield and the session state as they are
C26_IdleIgnores ==
  [][ (gameState = "idle"
         /\ (CallStep("handleFlag") \/ CallStep("handleChord")
               \/ CallStep("usePowerup")))
        => /\ board' = board
           /\ inventory' = inventory
           /\ shieldActive' = shieldActive
           /\ gameState' = "idle" ]_vars

\* an Idle session after a handleFlag
C26_Witness ==
  /\ gameState = "idle"
  /\ result.op = "handleFlag"

\* C24: the session is never Playing (nor Idle) on a board whose non-mine
\* cells are all revealed: a handleReveal, handleChord or safeReveal that
\* reveals the last of them and does not lose the game, a hit the shield
\* absorbed included, leaves the session Won
C24_NeverPlayingWhenWon ==
  (gameState = "playing" \/ gameState = "idle") => ~ checkWin(board)

\* a game that handleChord won
C24_Witness ==
  /\ gameState = "won"
  /\ result.op = "handleChord" /\ result.accepted
  /\ Len(result.revealed) > 0
  /\ checkWin(board)

\* a chord whose mine the shield absorbed, the session still Playing
C24_ShieldWitness ==
  /\ gameState = "playing"
  /\ result.op = "handleChord" /\ result.hitMine
  /\ Len(result.revealed) > 1

----------------------------------------------------------------------------
(* Power-ups *)

\* the number of inventory entries of a kind
Held(inv, kind) == Cardinality({ k \in 1 .. Len(inv) : inv[k].type = kind })

\* the power-up cells of a kind that the step reveals
NewPickups(kind) ==
  { c \in DOMAIN board.cells \cap DOMAIN board'.cells :
      /\ board.cells[c].powerup = kind
      /\ ~ board.cells[c].isRevealed
      /\ board'.cells[c].isRevealed }

\* the entries of a kind that the step uses up
Used(kind) ==
  IF result'.op = "usePowerup" /\ result'.accepted /\ result'.powerup = kind
    THEN 1 ELSE 0

\* C25: no pickup is skipped: when a handleReveal, a handleChord or a
\* safeReveal reveals power-up cells and the session is Playing afterwards,
\* each of them is collected: a shield cell leaves the shield on, a cell of
\* another kind adds one inventory entry of its kind
C25_NoPickupSkipped ==
  [][ (gameState' = "playing" /\ result'.op # "newGame")
        => \A kind \in Range(PowerupTypes) :
             NewPickups(kind) # {}
               => IF kind = "shield"
                    THEN shieldActive'
                    ELSE Held(inventory', kind)
                           = Held(inventory, kind) + Cardinality(NewPickups(kind))
                               - Used(kind) ]_vars

----------------------------------------------------------------------------
(* The timer *)

\* the freeze has not run out at the time of the step
Frozen == (freezeActive /\ now < freezeEndTime) \/ now < timerFrozenUntil

\* C27: the elapsed seconds change only on a tick that comes while the session
\* is Playing and the timer is not frozen (and newGame sets them back to 0):
\* they never advance in Idle, Won or Lost, nor on a tick that comes before
\* the freeze runs out
C27_TimerAdvancesOnlyOnTick ==
  [][ (timer' # timer)
        => \/ result'.op = "newGame" /\ timer' = 0
           \/ /\ CallStep("tick")
              /\ gameState = "playing" /\ gameState' = "playing"
              /\ ~ Frozen
              /\ timer' > timer ]_vars

\* a tick that came before the freeze ran out, after seconds had elapsed
C27_Witness ==
  /\ result.op = "tick" /\ ~ result.accepted
  /\ now < timerFrozenUntil
  /\ timer > 0
  /\ gameState = "playing"

\* C28: a tick that comes while the timer is not frozen raises the elapsed
\* seconds by exactly 1, until they are config.timing.maxTimer, where they
\* stay; they never exceed it
C28_TimerStepsToMax ==
  /\ [](timer >= 0 /\ timer <= maxTimer(ConfigMaxTimer))
  /\ [][ (CallStep("tick") /\ ~ Frozen)
          => timer' = IF timer < maxTimer(ConfigMaxTimer)
                        THEN timer + 1
                        ELSE maxTimer(ConfigMaxTimer) ]_vars

\* a tick that counted, the elapsed seconds at the maximum
C28_Witness ==
  /\ result.op = "tick" /\ result.accepted
  /\ timer = maxTimer(ConfigMaxTimer)

\* the step is a handler's call of PowerUps.collect
Collects ==
  /\ result'.powerup # Null /\ ~ result'.hitMine
  /\ \/ CallStep("handleReveal") /\ result'.accepted
     \/ CallStep("handleChord") /\ result'.accepted /\ Len(result'.revealed) > 0

\* C29: collect('shield') sets the shield and leaves the inventory as it is;
\* collect of another kind appends exactly one entry of that kind and leaves
\* the shield as it is; the inventory never holds a shield entry
C29_CollectShieldOrEntry ==
  /\ [](\A k \in 1 .. Len(inventory) : inventory[k].type # "shield")
  /\ [][ Collects
          => IF result'.powerup = "shield"
               THEN shieldActive' /\ inventory' = inventory
               ELSE /\ inventory' = Append(inventory, [ type |-> result'.powerup ])
                    /\ shieldActive' = shieldActive ]_vars

\* a shield collected while the inventory holds an item
C29_Witness ==
  /\ result.op = "handleReveal" /\ result.accepted /\ ~ result.hitMine
  /\ result.powerup = "shield"
  /\ shieldActive
  /\ Len(inventory) > 0

\* inv without its entry at position k
Without(inv, k) ==
  [ j \in 1 .. (Len(inv) - 1) |-> IF j < k THEN inv[j] ELSE inv[j + 1] ]

\* C30: PowerUps.use(kind), which usePowerup calls while Playing, removes the
\* first inventory entry of that kind, keeps the others in their order and
\* returns true; with no entry of the kind it returns false and leaves the
\* inventory, the shield, the freeze and the board as they are
C30_UseRemovesFirst ==
  [][ (CallStep("usePowerup") /\ gameState = "playing")
        => LET kind == result'.powerup
               Has == \E k \in 1 .. Len(inventory) : inventory[k].type = kind
           IN IF Has
                THEN /\ result'.value
                     /\ \E k \in 1 .. Len(inventory) :
                          /\ inventory[k].type = kind
                          /\ \A j \in 1 .. (k - 1) : inventory[j].type # kind
                          /\ inventory' = Without(inventory, k)
                ELSE /\ ~ result'.value
                     /\ inventory' = inventory
                     /\ shieldActive' = shieldActive
                     /\ freezeActive' = freezeActive
                     /\ freezeEndTime' = freezeEndTime
                     /\ board' = board ]_vars

\* a use that left two items of different kinds, the later of the used kind
C30_Witness ==
  /\ result.op = "usePowerup" /\ result.value
  /\ Len(inventory) = 2
  /\ inventory[1].type # result.powerup
  /\ inventory[2].type = result.powerup

----------------------------------------------------------------------------
(* The PowerUps API *)

\* C31: consumeShield returns true exactly when the shield was active and
\* leaves it inactive; with no shield it returns false and changes nothing;
\* of two calls in a row at most one returns true
C31_ConsumeShieldOnce ==
  [][ (result'.op = "consumeShield")
        => /\ result'.value <=> shieldActive
           /\ ~ shieldActive'
           /\ inventory' = inventory
           /\ freezeActive' = freezeActive
           /\ freezeEndTime' = freezeEndTime
           /\ (result.op = "consumeShield" => ~ (result.value /\ result'.value)) ]_vars

\* a consumeShield that found the shield, the inventory holding an item
C31_Witness ==
  /\ result.op = "consumeShield" /\ result.value
  /\ ~ shieldActive
  /\ Len(inventory) > 0

\* the step is a use of a freeze item
UsesFreeze ==
  /\ result.op = "none"
  /\ result'.op \in {"use", "usePowerup"}
  /\ result'.powerup = "freeze" /\ result'.value

\* the step resets the power-ups
Resets == result.op = "none" /\ result'.op \in {"reset", "newGame"}

\* C32: a freeze used at time t is active with freezeEndTime = t + d, d the
\* configured duration; until a reset or a later use, the expiry stays and
\* the freeze is not cleared before it; isTimerFrozen returns true at every
\* time before the expiry and at or after it returns false and clears
\* freezeActive, whether or not a callback has run
C32_FreezeLastsDuration ==
  /\ [][ UsesFreeze
          => freezeActive' /\ freezeEndTime' = now + FreezeDuration ]_vars
  /\ [][ (freezeActive /\ ~ UsesFreeze /\ ~ Resets)
          => /\ freezeEndTime' = freezeEndTime
             /\ (now < freezeEndTime => freezeActive') ]_vars
  /\ [][ CallStep("isTimerFrozen")
          => IF freezeActive /\ now < freezeEndTime
               THEN result'.value /\ freezeActive'
               ELSE ~ result'.value /\ ~ freezeActive' ]_vars

\* isTimerFrozen ended a freeze whose callback had not run
C32_Witness ==
  /\ result.op = "isTimerFrozen" /\ ~ result.value
  /\ freezeEndTime > 0 /\ now >= freezeEndTime
  /\ freezeEndTime \in freezeTimers

\* isTimerFrozen found the freeze in force
C32_FrozenWitness ==
  /\ result.op = "isTimerFrozen" /\ result.value
  /\ now > 0 /\ now < freezeEndTime

\* C39: a callback scheduled by an earlier freeze never clears freezeActive
\* while the time is before the expiry of the latest freeze, whatever the
\* order of uses, resets, queries and callbacks
C39_StaleCallbackHarmless ==
  [][ (CallStep("freezeTimeout") /\ freezeActive /\ now < freezeEndTime)
        => freezeActive' ]_vars

\* a callback of an earlier freeze ran while a later freeze was in force
C39_Witness ==
  /\ result.op = "freezeTimeout"
  /\ freezeActive /\ now < freezeEndTime

\* C33: from any session state, newGame leaves a fresh Idle session: a board
\* with no mine, no revealed, flagged or questioned cell, no power-up and
\* minesPlaced false, an empty inventory, no shield, no freeze, the timer
\* stopped and the elapsed seconds 0
C33_NewGameFresh ==
  [][ CallStep("newGame")
        => /\ gameState' = "idle"
           /\ ~ board'.minesPlaced
           /\ \A i \in DOMAIN board'.cells :
                /\ ~ board'.cells[i].isMine
                /\ ~ board'.cells[i].isRevealed
                /\ ~ board'.cells[i].isFlagged
                /\ ~ board'.cells[i].isQuestion
                /\ board'.cells[i].adjacentMines = 0
                /\ board'.cells[i].powerup = Null
           /\ inventory' = <<>>
           /\ ~ shieldActive'
           /\ ~ freezeActive' /\ timerFrozenUntil' = 0
           /\ ~ timerInterval'
           /\ timer' = 0 ]_vars

\* a new game begun while a freeze callback of the game before is pending
C33_Witness ==
  /\ result.op = "newGame"
  /\ gameState = "idle"
  /\ \E due \in freezeTimers : now < due

----------------------------------------------------------------------------
(* Power-up cells *)

PowerupCells(b) == { i \in DOMAIN b.cells : b.cells[i].powerup # Null }

\* C34: every cell that carries a power-up is a cell without a mine whose
\* adjacentMines is above 0, and no cell carries a power-up when the board's
\* powerupConfig is absent or not enabled
C34_PowerupsOnNumberedCells ==
  /\ \A i \in PowerupCells(board) :
       ~ board.cells[i].isMine /\ board.cells[i].adjacentMines > 0
  /\ (~ board.powerupConfig.present \/ ~ board.powerupConfig.enabled)
       => PowerupCells(board) = {}

\* a board placed with a power-up on it
C34_Witness ==
  /\ JustPlaced
  /\ PowerupCells(board) # {}

\* C35: with powerupConfig.enabled true and spawnChance 0, no cell carries a
\* power-up after placeMines
C35_ZeroChanceSpawnsNothing ==
  (/\ board.minesPlaced
   /\ board.powerupConfig.present /\ board.powerupConfig.enabled
   /\ board.powerupConfig.spawnChance = 0)
    => PowerupCells(board) = {}

----------------------------------------------------------------------------
(* The shield *)

\* C36: while the session is Playing no mine cell is revealed, also after a
\* handleChord that hit two mines with the shield active
C36_NoMineRevealedWhilePlaying ==
  gameState = "playing"
    => \A i \in DOMAIN board.cells :
         board.cells[i].isMine => ~ board.cells[i].isRevealed

\* the step is a handleReveal or handleChord that hits a mine
Hit ==
  /\ CallStep("handleReveal") \/ CallStep("handleChord")
  /\ result'.hitMine

\* the shield cells found so far
ShieldsFound(b) ==
  { i \in DOMAIN b.cells : b.cells[i].powerup = "shield" /\ b.cells[i].isRevealed }

\* C37: shields do not stack: a shield collected leaves the shield on, whether
\* or not it was on before; a handleReveal or handleChord that hits a mine
\* with the shield on spends it and the game goes on, and one that hits a
\* mine with the shield off loses the game; the shield comes on only by a
\* collect, so after one absorbed hit the next hit with no shield collected
\* in between is lost
C37_ShieldsDoNotStack ==
  /\ [][ (Collects /\ result'.powerup = "shield") => shieldActive' ]_vars
  /\ [][ Hit => IF shieldActive
                  THEN ~ shieldActive' /\ gameState' = "playing"
                  ELSE gameState' = "lost" ]_vars
  /\ [][ (~ shieldActive /\ shieldActive')
          => (Collects /\ result'.powerup = "shield") ]_vars

\* a game lost to a mine after two shields were found
C37_Witness ==
  /\ gameState = "lost"
  /\ result.op = "handleReveal" /\ result.hitMine
  /\ ~ shieldActive
  /\ Cardinality(ShieldsFound(board)) >= 2

\* the cells the step reveals
NewlyRevealed ==
  { c \in DOMAIN board.cells :
      ~ board.cells[c].isRevealed /\ board'.cells[c].isRevealed }

\* the step is a use of a safeReveal item
UsesSafeReveal ==
  /\ CallStep("usePowerup")
  /\ result'.powerup = "safeReveal" /\ result'.value

\* C38: a use of safeReveal reveals no mine and never loses the game; the
\* cells it reveals were without a mine, unrevealed and unflagged; when it
\* reveals the last cell without a mine the session is Won
C38_SafeRevealSafe ==
  [][ UsesSafeReveal
        => /\ gameState' # "lost"
           /\ \A c \in NewlyRevealed :
                /\ ~ board.cells[c].isMine
                /\ ~ board.cells[c].isFlagged
           /\ \A c \in DOMAIN board'.cells :
                board'.cells[c].isMine => ~ board'.cells[c].isRevealed
           /\ \A k \in 1 .. Len(result'.revealed) :
                result'.revealed[k] \in NewlyRevealed
           /\ (checkWin(board') <=> gameState' = "won") ]_vars

\* a game that a safeReveal won
C38_Witness ==
  /\ result.op = "usePowerup" /\ result.powerup = "safeReveal" /\ result.value
  /\ Len(result.revealed) > 0
  /\ gameState = "won"

----------------------------------------------------------------------------
(* The mouse gestures *)

\* the gestures that press both buttons and then let both go
ChordGestures ==
  { << <<"down", a>>, <<"down", b>>, <<"up", c>>, <<"up", d>> >> :
      <<a, b, c, d>> \in { <<0, 2, 0, 2>>, <<0, 2, 2, 0>>,
                          <<2, 0, 0, 2>>, <<2, 0, 2, 0>> } }

\* C40: a gesture that presses the left and the right button on a cell and
\* lets both go over a cell, in either order, makes exactly one onChord
\* callback and no onReveal or onFlag callback
C40_ChordGestureOneCallback ==
  (input.events \in ChordGestures /\ input.onCells)
    => input.calls = << "chord" >>

====
